---- MODULE Spec2Model ----
(***************************************************************************)
(* The cost estimation core of the AWS cost estimator: the classification  *)
(* table (cost/cost_categories.py), the cost calculator and its retry and  *)
(* batch executors (cost/pricing_service.py, cost/calculator_registry.py), *)
(* the aggregator (cost/cost_aggregator.py) and the post-hoc filter of     *)
(* main.py.                                                                *)
(*                                                                         *)
(* Conventions.  A Python None or empty string is the empty string "".     *)
(* A metadata value that may be a number, absent or of another type is a   *)
(* tagged record (Absent, Num(n), BadStr).  Rates are integers in units of *)
(* 1/10000 dollar; a calculator's total_cost is an integer in units of     *)
(* 1/(30 * 10000) dollar, so that the code's days/30 factor stays exact.   *)
(* The aggregator's inputs are whole-dollar integers and its scaled totals *)
(* are exact fractions [num, den].                                         *)
(***************************************************************************)
EXTENDS Integers, Sequences, FiniteSets, TLC

VARIABLES
    \* ---- the inputs of a run
    resources,        \* the list of resource records
    region,           \* the region argument
    days,             \* the period argument (days / period_days)
    pc,               \* position of the run
    \* ---- the batch and retry executors
    executor,         \* "pricing" (PricingService) or "registry" (CostCalculatorRegistry)
    service_set,      \* the registry's _pricing_service is set
    queue,            \* the list the batch loop iterates (prioritized by the registry)
    idx,              \* 1-based position in queue of the resource being processed
    attempt,          \* the retry loop's `attempt`
    last_exception,   \* the retry loop's last_exception ("" for None)
    attempts_made,    \* attempts made for the current resource
    sleeps_made,      \* backoff sleeps made for the current resource
    only_retriable,   \* no attempt for the current resource raised a terminal error
    last_delay,       \* the delay of the latest backoff sleep (0: none yet)
    results,          \* the result map: sequence of [id, data] in insertion order
    processed,        \* the batch loop's `processed`
    progress,         \* the calls made to progress_callback: <<processed, total>>
    last_call,        \* how the last finished retry-wrapper call went
    \* ---- the calculator
    price_cache,      \* PricingService._price_cache
    ncalls,           \* calculate_resource_cost calls made on the resource
    outcome,          \* the latest calculate_resource_cost call: what the client did, the result
    lookups,          \* the cache keys the pricing client was asked for, in order
    \* ---- the aggregator and the post-hoc filter
    cost_results,     \* aggregate_costs' cost_results: sequence of [id, data]
    cost_thresholds,  \* CostAggregator.cost_thresholds
    clock,            \* datetime.now(), as a counter
    summary,          \* the summary of the latest aggregate_costs call
    previous,         \* the summary of the call before it
    args,             \* the filter arguments
    filtered,         \* the summary _apply_cost_filters_and_sorting returned
    validation_stats, \* what _generate_validation_stats returned
    \* ---- CostClassifier
    classified,       \* the classifier's answers: kind, category, priority
    \* ---- trend analysis and forecast (cost_aggregator.py, module level)
    historical_cost_data, \* the historical entries: date and cost
    current_cost,     \* the current period's cost
    forecast_days,    \* the number of days to forecast
    trend_analysis,   \* what generate_cost_trend_analysis returned
    cost_forecast     \* what generate_cost_forecast returned

inputVars == <<resources, region, days>>

execVars == <<executor, service_set, queue, idx, attempt, last_exception, attempts_made,
              sleeps_made, only_retriable, last_delay, results, processed, progress,
              last_call>>

calcVars == <<price_cache, ncalls, outcome, lookups>>

aggVars == <<cost_results, cost_thresholds, clock, summary, previous, args, filtered,
             validation_stats>>

classVars == <<classified>>

trendVars == <<historical_cost_data, current_cost, forecast_days, trend_analysis,
               cost_forecast>>

vars == <<inputVars, pc, execVars, calcVars, aggVars, classVars, trendVars>>

-----------------------------------------------------------------------------
(* Strings: Python's `k in s`, str.lower(), s[:n], str.startswith.          *)

Contains(k, s) ==
    \/ k = ""
    \/ \E i \in 1..(Len(s) - Len(k) + 1) : SubSeq(s, i, i + Len(k) - 1) = k

UpperChars == <<"A","B","C","D","E","F","G","H","I","J","K","L","M",
                "N","O","P","Q","R","S","T","U","V","W","X","Y","Z">>
LowerChars == <<"a","b","c","d","e","f","g","h","i","j","k","l","m",
                "n","o","p","q","r","s","t","u","v","w","x","y","z">>

LowerOf == [c \in {UpperChars[k] : k \in 1..Len(UpperChars)} |->
               LowerChars[CHOOSE k \in 1..Len(UpperChars) : UpperChars[k] = c]]

UpperOf == [c \in {LowerChars[k] : k \in 1..Len(LowerChars)} |->
               UpperChars[CHOOSE k \in 1..Len(LowerChars) : LowerChars[k] = c]]

LowerChar(c) == IF c \in DOMAIN LowerOf THEN LowerOf[c] ELSE c

RECURSIVE LowerFrom(_, _)
LowerFrom(s, i) ==
    IF i > Len(s) THEN "" ELSE LowerChar(SubSeq(s, i, i)) \o LowerFrom(s, i + 1)

Lower(s) == LowerFrom(s, 1)

Prefix(s, n) == IF Len(s) <= n THEN s ELSE SubSeq(s, 1, n)

StartsWith(s, p) == Len(s) >= Len(p) /\ SubSeq(s, 1, Len(p)) = p

MinOf(S) == CHOOSE x \in S : \A y \in S : x <= y

RECURSIVE SumSeq(_)
SumSeq(s) == IF s = <<>> THEN 0 ELSE s[1] + SumSeq(Tail(s))

UpperChar(c) == IF c \in DOMAIN UpperOf THEN UpperOf[c] ELSE c

IsAlpha(c) == c \in DOMAIN LowerOf \/ c \in DOMAIN UpperOf

\* str.title(): a letter after a non-letter is upper-cased, any other lower-cased
RECURSIVE TitleFrom(_, _)
TitleFrom(s, i) ==
    IF i > Len(s) THEN ""
    ELSE LET c == SubSeq(s, i, i)
             start == i = 1 \/ ~IsAlpha(SubSeq(s, i - 1, i - 1))
         IN  (IF start THEN UpperChar(c) ELSE LowerChar(c)) \o TitleFrom(s, i + 1)

Title(s) == TitleFrom(s, 1)

\* str.replace('_', '-')
RECURSIVE DashFrom(_, _)
DashFrom(s, i) ==
    IF i > Len(s) THEN ""
    ELSE (IF SubSeq(s, i, i) = "_" THEN "-" ELSE SubSeq(s, i, i)) \o DashFrom(s, i + 1)

-----------------------------------------------------------------------------
(* Classification table: cost/cost_categories.py                           *)

RESOURCE_COST_MAPPING ==
    [ instances |-> "billable_compute", lambda_functions |-> "billable_compute",
      volumes |-> "billable_storage", s3_buckets |-> "billable_storage",
      nat_gateways |-> "billable_networking", elastic_ips |-> "billable_networking",
      vpc_endpoints |-> "billable_networking",
      classic_elbs |-> "billable_load_balancing", albs_nlbs |-> "billable_load_balancing",
      target_groups |-> "free_networking",
      rds_instances |-> "billable_database", rds_clusters |-> "billable_database",
      route53_zones |-> "billable_dns", route53_records |-> "billable_dns",
      vpcs |-> "free_networking", subnets |-> "free_networking",
      route_tables |-> "free_networking", internet_gateways |-> "free_networking",
      network_interfaces |-> "free_networking",
      security_groups |-> "free_security",
      iam_roles |-> "free_iam", iam_policies |-> "free_iam",
      cloudformation_stacks |-> "free_management",
      other_resources |-> "unknown" ]

COST_PRIORITY_MAPPING ==
    [ billable_compute |-> "high", billable_storage |-> "medium",
      billable_networking |-> "high", billable_database |-> "high",
      billable_load_balancing |-> "medium", billable_dns |-> "low",
      free_networking |-> "free", free_security |-> "free", free_iam |-> "free",
      free_management |-> "free", unknown |-> "unknown" ]

\* the members of the enums CostCategory and CostPriority, by value
CostCategory ==
    { "billable_compute", "billable_storage", "billable_networking", "billable_database",
      "billable_load_balancing", "billable_dns", "free_networking", "free_security",
      "free_iam", "free_management", "unknown" }

CostPriority == {"high", "medium", "low", "free", "unknown"}

\* a classifier whose lookup has no default: None for a kind the table lacks
get_cost_category_no_default(resource_type) ==
    IF resource_type \in DOMAIN RESOURCE_COST_MAPPING
    THEN RESOURCE_COST_MAPPING[resource_type]
    ELSE "None"

get_cost_category(resource_type) ==
    IF resource_type \in DOMAIN RESOURCE_COST_MAPPING
    THEN RESOURCE_COST_MAPPING[resource_type]
    ELSE "unknown"

get_cost_priority(resource_type) ==
    LET cost_category == get_cost_category(resource_type)
    IN  IF cost_category \in DOMAIN COST_PRIORITY_MAPPING
        THEN COST_PRIORITY_MAPPING[cost_category]
        ELSE "unknown"

is_billable(resource_type) == StartsWith(get_cost_category(resource_type), "billable_")

is_free(resource_type) == StartsWith(get_cost_category(resource_type), "free_")

-----------------------------------------------------------------------------
(* Resource records: services/base.py ResourceInfo                         *)

Absent == [tag |-> "absent", v |-> 0]
Num(n) == [tag |-> "num", v |-> n]
BadStr == [tag |-> "str", v |-> 0]

\* additional_info with none of the keys the cost core reads
NoInfo ==
    [ has_info |-> FALSE, resource_category |-> "", discovery_method |-> "",
      service |-> "", resource_type |-> "", instance_type |-> "",
      size_gb |-> Absent, volume_type |-> "", estimated_size_gb |-> Absent,
      storage_class |-> "", endpoint_type |-> "" ]

Info == [NoInfo EXCEPT !.has_info = TRUE]

ResourceInfo(id, type, reg, info) ==
    [id |-> id, type |-> type, region |-> reg, additional_info |-> info]

\* what services/resource_groups_service.py _create_resource_info builds
FromArn(id, service, resource_type, reg) ==
    ResourceInfo(id, resource_type, reg,
        [Info EXCEPT !.discovery_method = "resource_groups_api",
                     !.service = service, !.resource_type = resource_type])

-----------------------------------------------------------------------------
(* Kind resolution: the calculator's and the aggregator's                  *)

\* PricingService._map_arn_to_category's service_type_mapping, in dict order
service_type_mapping(arn_service) ==
    CASE arn_service = "ec2" ->
           << <<"instance", "instances">>, <<"volume", "volumes">>,
              <<"natgateway", "nat_gateways">>, <<"nat-gateway", "nat_gateways">>,
              <<"elastic-ip", "elastic_ips">>, <<"vpc-endpoint", "vpc_endpoints">>,
              <<"security-group", "security_groups">>,
              <<"network-interface", "network_interfaces">>,
              <<"vpc", "vpcs">>, <<"subnet", "subnets">>,
              <<"route-table", "route_tables">>,
              <<"internet-gateway", "internet_gateways">> >>
      [] arn_service = "elasticloadbalancing" ->
           << <<"loadbalancer", "albs_nlbs">>, <<"targetgroup", "target_groups">> >>
      [] arn_service = "s3" -> << <<"", "s3_buckets">> >>
      [] arn_service = "route53" ->
           << <<"hostedzone", "route53_zones">>, <<"rrset", "route53_records">> >>
      [] arn_service = "iam" -> << <<"role", "iam_roles">>, <<"policy", "iam_policies">> >>
      [] arn_service = "cloudformation" -> << <<"stack", "cloudformation_stacks">> >>
      [] OTHER -> << >>

MappedServices == {"ec2", "elasticloadbalancing", "s3", "route53", "iam", "cloudformation"}

\* the lookup both _map_arn_to_category share: exact key, first contained key, '' key
lookup_service_map(arn_service, arn_resource_type) ==
    IF arn_service \notin MappedServices THEN "unknown"
    ELSE LET service_map == service_type_mapping(arn_service)
             exact == {k \in 1..Len(service_map) : service_map[k][1] = arn_resource_type}
             partial == {k \in 1..Len(service_map) :
                            /\ service_map[k][1] # ""
                            /\ Contains(service_map[k][1], arn_resource_type)}
             empty == {k \in 1..Len(service_map) : service_map[k][1] = ""}
         IN  IF exact # {} THEN service_map[MinOf(exact)][2]
             ELSE IF partial # {} THEN service_map[MinOf(partial)][2]
             ELSE IF empty # {} THEN service_map[MinOf(empty)][2]
             ELSE "unknown"

\* PricingService._map_arn_to_category
_map_arn_to_category(arn_service, arn_resource_type) ==
    IF arn_service = "" \/ arn_resource_type = "" THEN "unknown"
    ELSE lookup_service_map(arn_service, arn_resource_type)

\* the resource_category calculate_resource_cost dispatches on ("" when none)
dispatch_category(resource) ==
    LET info == resource.additional_info
    IN  IF info.resource_category # "" THEN info.resource_category
        ELSE IF info.discovery_method = "resource_groups_api"
             THEN _map_arn_to_category(info.service, info.resource_type)
             ELSE ""

\* CostAggregator._determine_resource_type
_determine_resource_type(resource) ==
    LET info == resource.additional_info
        service == info.service
        resource_type == info.resource_type
        fallback == resource.type
    IN  IF info.has_info /\ info.discovery_method = "resource_groups_api"
        THEN IF service = "ec2"
             THEN IF resource_type = "instance" THEN "instances"
                  ELSE IF resource_type = "volume" THEN "volumes"
                  ELSE IF Contains("natgateway", resource_type) THEN "nat_gateways"
                  ELSE IF Contains("elastic-ip", resource_type) THEN "elastic_ips"
                  ELSE IF Contains("vpc-endpoint", resource_type) THEN "vpc_endpoints"
                  ELSE IF Contains("security-group", resource_type) THEN "security_groups"
                  ELSE fallback
             ELSE IF service = "s3" THEN "s3_buckets"
             ELSE IF service = "route53" THEN "route53_zones"
             ELSE IF service = "elasticloadbalancing" THEN "albs_nlbs"
             ELSE fallback
        ELSE fallback

-----------------------------------------------------------------------------
(* Pricing lookups: cost/pricing_service.py.  `api` is what the pricing    *)
(* client does when it is called: "raises", "empty" (no PriceList entry),  *)
(* "no_rate" (an entry no on-demand rate can be extracted from, so that    *)
(* _extract_on_demand_hourly_rate returns 0.0) or "rate" (an entry with    *)
(* the rate api.rate).                                                     *)

Put(cache, key, value) ==
    [k \in DOMAIN cache \cup {key} |-> IF k = key THEN value ELSE cache[k]]

Looked(value, cache, called) == [value |-> value, cache |-> cache, called |-> called]

\* the shape get_ec2/ebs/elb/elastic_ip pricing share: cache hit, else the client;
\* an entry is cached and returned, anything else falls back uncached
single_rate_lookup(cache_key, cache, api, fallback) ==
    IF cache_key \in DOMAIN cache THEN Looked(cache[cache_key], cache, <<>>)
    ELSE IF api.kind \in {"rate", "no_rate"}
         THEN LET extracted == IF api.kind = "rate" THEN api.rate ELSE 0
              IN  Looked(extracted, Put(cache, cache_key, extracted), <<cache_key>>)
         ELSE Looked(fallback, cache, <<cache_key>>)

\* the shape get_nat_gateway/vpc_endpoint pricing share: every response is cached,
\* with the defaults for the rates it does not carry
rate_pair_lookup(cache_key, cache, api, default) ==
    LET pair(h) == [hourly_rate |-> h, data_processing_rate |-> default]
    IN  IF cache_key \in DOMAIN cache THEN Looked(cache[cache_key], cache, <<>>)
        ELSE IF api.kind = "raises" THEN Looked(pair(default), cache, <<cache_key>>)
        ELSE LET h == IF api.kind = "rate" THEN api.rate
                      ELSE IF api.kind = "no_rate" THEN 0 ELSE default
             IN  Looked(pair(h), Put(cache, cache_key, pair(h)), <<cache_key>>)

\* PricingService._get_fallback_ec2_price's table, in dict order
fallback_prices ==
    << <<"t2.nano", 58>>, <<"t2.micro", 116>>, <<"t2.small", 230>>, <<"t2.medium", 464>>,
       <<"t2.large", 928>>, <<"t2.xlarge", 1856>>, <<"t2.2xlarge", 3712>>,
       <<"t3.nano", 52>>, <<"t3.micro", 104>>, <<"t3.small", 208>>, <<"t3.medium", 416>>,
       <<"t3.large", 832>>, <<"t3.xlarge", 1664>>, <<"t3.2xlarge", 3328>>,
       <<"m5.large", 960>>, <<"m5.xlarge", 1920>>, <<"m5.2xlarge", 3840>>,
       <<"m5.4xlarge", 7680>>, <<"m5.8xlarge", 15360>>, <<"m5.12xlarge", 23040>>,
       <<"m5.16xlarge", 30720>>, <<"m5.24xlarge", 46080>>, <<"m5.metal", 46080>>,
       <<"c5.large", 850>>, <<"c5.xlarge", 1700>>, <<"c5.2xlarge", 3400>>,
       <<"c5.4xlarge", 6800>>, <<"c5.9xlarge", 15300>>, <<"c5.12xlarge", 20400>>,
       <<"c5.18xlarge", 30600>>, <<"c5.24xlarge", 40800>>, <<"c5.metal", 40800>>,
       <<"c5d.large", 960>>, <<"c5d.xlarge", 1920>>, <<"c5d.2xlarge", 3840>>,
       <<"c5d.4xlarge", 7680>>, <<"c5d.9xlarge", 17280>>, <<"c5d.12xlarge", 23040>>,
       <<"c5d.18xlarge", 34560>>, <<"c5d.24xlarge", 46080>>, <<"c5d.metal", 46080>>,
       <<"r5.large", 1260>>, <<"r5.xlarge", 2520>>, <<"r5.2xlarge", 5040>>,
       <<"r5.4xlarge", 10080>>, <<"r5.8xlarge", 20160>>, <<"r5.12xlarge", 30240>>,
       <<"r5.16xlarge", 40320>>, <<"r5.24xlarge", 60480>>, <<"r5.metal", 60480>>,
       <<"c6i.metal", 48960>>, <<"c6a.metal", 41470>>, <<"m6i.metal", 46080>>,
       <<"r6i.metal", 60480>>,
       <<"x1e.xlarge", 8340>>, <<"x1e.2xlarge", 16680>>, <<"x1e.4xlarge", 33360>>,
       <<"x1e.8xlarge", 66720>>,
       <<"p3.2xlarge", 30600>>, <<"p3.8xlarge", 122400>>, <<"p3.16xlarge", 244800>>,
       <<"g4dn.xlarge", 5260>>, <<"g4dn.2xlarge", 7520>>, <<"g4dn.4xlarge", 12040>> >>

DefaultEc2Price == 960

_get_fallback_ec2_price(instance_type) ==
    LET instance_type_lower == Lower(instance_type)
        exact == {k \in 1..Len(fallback_prices) : fallback_prices[k][1] = instance_type_lower}
        partial == {k \in 1..Len(fallback_prices) :
                        Contains(fallback_prices[k][1], instance_type_lower)}
    IN  IF exact # {} THEN fallback_prices[MinOf(exact)][2]
        ELSE IF partial # {} THEN fallback_prices[MinOf(partial)][2]
        ELSE DefaultEc2Price

_get_fallback_ebs_price(volume_type) ==
    CASE volume_type = "gp2" -> 1000 [] volume_type = "gp3" -> 800
      [] volume_type = "io1" -> 1250 [] volume_type = "io2" -> 1250
      [] volume_type = "sc1" -> 250  [] volume_type = "st1" -> 450
      [] OTHER -> 1000

get_ec2_instance_pricing(instance_type, reg, cache, api) ==
    single_rate_lookup("ec2_" \o instance_type \o "_" \o reg \o "_Linux", cache, api,
                       _get_fallback_ec2_price(instance_type))

get_ebs_volume_pricing(volume_type, reg, cache, api) ==
    single_rate_lookup("ebs_" \o volume_type \o "_" \o reg, cache, api,
                       _get_fallback_ebs_price(volume_type))

get_elb_pricing(load_balancer_type, reg, cache, api) ==
    single_rate_lookup("elb_" \o load_balancer_type \o "_" \o reg, cache, api, 250)

get_nat_gateway_pricing(reg, cache, api) ==
    rate_pair_lookup("nat_gateway_" \o reg, cache, api, 450)

get_elastic_ip_pricing(reg, cache, api) ==
    single_rate_lookup("elastic_ip_" \o reg, cache, api, 50)

get_vpc_endpoint_pricing(endpoint_type, reg, cache, api) ==
    LET cache_key == "vpc_endpoint_" \o endpoint_type \o "_" \o reg
        free == [hourly_rate |-> 0, data_processing_rate |-> 0]
    IN  IF Lower(endpoint_type) \in {"interface", "interfaceendpoint"}
        THEN rate_pair_lookup(cache_key, cache, api, 100)
        ELSE IF cache_key \in DOMAIN cache THEN Looked(cache[cache_key], cache, <<>>)
        ELSE Looked(free, Put(cache, cache_key, free), <<>>)

get_s3_bucket_pricing(storage_class, reg, cache, api) ==
    LET cache_key == "s3_" \o storage_class \o "_" \o reg
        priced(r) == [monthly_rate_per_gb |-> r, request_cost_per_thousand |-> 4]
    IN  IF cache_key \in DOMAIN cache THEN Looked(cache[cache_key], cache, <<>>)
        ELSE IF api.kind \in {"rate", "no_rate"}
             THEN LET r == IF api.kind = "rate" THEN api.rate ELSE 0
                  IN  Looked(priced(r), Put(cache, cache_key, priced(r)), <<cache_key>>)
             ELSE Looked(priced(230), cache, <<cache_key>>)

\* get_route53_pricing: 0.50 per hosted zone; the query rate is held per million
\* queries (0.0000004 * 1000000), the only way the calculator uses it
get_route53_pricing(resource_type) ==
    IF resource_type = "hosted_zone" THEN 5000 ELSE 4000

-----------------------------------------------------------------------------
(* The cost calculator: PricingService.calculate_resource_cost.  A call    *)
(* ends in an outcome: it returns cost data or raises, and either way      *)
(* leaves the price cache and the client calls it made.                    *)

\* a cost_data dict; keys a calculator does not set are Absent / "" / FALSE
CostData(total_cost, service, is_estimated, pricing_source) ==
    [ total_cost |-> total_cost, service |-> service, is_estimated |-> is_estimated,
      pricing_source |-> pricing_source, calculation_failed |-> FALSE, error |-> "",
      hourly_rate |-> Absent, monthly_rate_per_gb |-> Absent,
      actual_instance_type |-> "", size_gb |-> Absent, retry_attempts |-> Absent ]

Returned(data, looked) ==
    [raised |-> FALSE, error |-> "", data |-> data,
     cache |-> looked.cache, called |-> looked.called]

Raised(error, looked) ==
    [raised |-> TRUE, error |-> error, data |-> CostData(0, "", FALSE, ""),
     cache |-> looked.cache, called |-> looked.called]

NoLookup(cache) == Looked(0, cache, <<>>)

\* str(TypeError) of float * str
TypeErrorText == "can't multiply sequence by non-int of type 'float'"

\* hourly_rate * (days * 24), in cost units
HourlyCost(hourly_rate, d) == hourly_rate * (d * 24) * 30

\* monthly amount * (days / 30.0), in cost units
PeriodCost(monthly, d) == monthly * d

_get_default_cost_data ==
    CostData(0, "Unknown", TRUE, "Default (Unknown Resource Type)")

_get_free_service_cost(service_name) ==
    CostData(0, service_name, FALSE, "AWS Pricing (Free Service)")

DefaultInstanceType == "t3.medium"

_calculate_ec2_instance_cost(resource, reg, d, cache, api) ==
    LET info == resource.additional_info
        given == IF resource.type # "" THEN resource.type ELSE "t3.micro"
        specific_type == IF info.has_info THEN info.instance_type ELSE ""
        instance_type ==
            IF given = "instance"
            THEN IF specific_type # "" THEN specific_type ELSE DefaultInstanceType
            ELSE given
        looked == get_ec2_instance_pricing(instance_type, reg, cache, api)
        is_estimated == resource.type = "instance" /\ ~(info.has_info /\ info.instance_type # "")
        total_cost == HourlyCost(looked.value, d)
        pricing_source ==
            IF is_estimated
            THEN "AWS Pricing API (ESTIMATED - using " \o instance_type \o " as default)"
            ELSE "AWS Pricing API"
    IN  Returned([CostData(total_cost, "EC2-Instance", is_estimated, pricing_source)
                    EXCEPT !.hourly_rate = Num(looked.value),
                           !.actual_instance_type = instance_type], looked)

DefaultVolumeSizeGb == 20

_calculate_ebs_volume_cost(resource, reg, d, cache, api) ==
    LET info == resource.additional_info
        size_gb == IF info.size_gb = Absent THEN Num(DefaultVolumeSizeGb) ELSE info.size_gb
        volume_type == IF info.volume_type = "" THEN "gp2" ELSE info.volume_type
        looked == get_ebs_volume_pricing(volume_type, reg, cache, api)
    IN  IF size_gb.tag # "num" THEN Raised(TypeErrorText, looked)
        ELSE Returned([CostData(PeriodCost(looked.value * size_gb.v, d), "EBS-Volume",
                                FALSE, "AWS Pricing API")
                         EXCEPT !.monthly_rate_per_gb = Num(looked.value),
                                !.size_gb = size_gb], looked)

_calculate_elb_cost(resource, reg, d, elb_type, cache, api) ==
    LET looked == get_elb_pricing(elb_type, reg, cache, api)
    IN  Returned([CostData(HourlyCost(looked.value, d), "ELB-" \o Title(elb_type),
                           FALSE, "AWS Pricing API")
                    EXCEPT !.hourly_rate = Num(looked.value)], looked)

_calculate_nat_gateway_cost(resource, reg, d, cache, api) ==
    LET looked == get_nat_gateway_pricing(reg, cache, api)
        hourly_cost == HourlyCost(looked.value.hourly_rate, d)
        data_processing_cost == PeriodCost(100 * looked.value.data_processing_rate, d)
    IN  Returned([CostData(hourly_cost + data_processing_cost, "NAT-Gateway",
                           FALSE, "AWS Pricing API")
                    EXCEPT !.hourly_rate = Num(looked.value.hourly_rate)], looked)

_calculate_elastic_ip_cost(resource, reg, d, cache, api) ==
    LET looked == get_elastic_ip_pricing(reg, cache, api)
    IN  Returned([CostData(HourlyCost(looked.value, d), "Elastic-IP",
                           FALSE, "AWS Pricing API")
                    EXCEPT !.hourly_rate = Num(looked.value)], looked)

_calculate_vpc_endpoint_cost(resource, reg, d, cache, api) ==
    LET info == resource.additional_info
        endpoint_type == IF info.endpoint_type = "" THEN "interface" ELSE info.endpoint_type
        looked == get_vpc_endpoint_pricing(endpoint_type, reg, cache, api)
        hourly_cost == HourlyCost(looked.value.hourly_rate, d)
        data_processing_cost == PeriodCost(50 * looked.value.data_processing_rate, d)
    IN  IF looked.value.hourly_rate = 0
        THEN Returned(CostData(0, "VPC-Endpoint-Gateway", FALSE,
                               "AWS Pricing (Free Service)"), looked)
        ELSE Returned([CostData(hourly_cost + data_processing_cost,
                                "VPC-Endpoint-Interface", FALSE, "AWS Pricing API")
                         EXCEPT !.hourly_rate = Num(looked.value.hourly_rate)], looked)

DefaultBucketSizeGb == 10

_calculate_s3_bucket_cost(resource, reg, d, cache, api) ==
    LET info == resource.additional_info
        storage_class == IF info.storage_class = "" THEN "Standard" ELSE info.storage_class
        looked == get_s3_bucket_pricing(storage_class, reg, cache, api)
        estimated_gb_stored ==
            IF info.estimated_size_gb = Absent THEN Num(DefaultBucketSizeGb)
            ELSE info.estimated_size_gb
        period_storage_cost ==
            PeriodCost(estimated_gb_stored.v * looked.value.monthly_rate_per_gb, d)
        \* (10000 * days / 30) / 1000 requests-thousands at the request rate
        request_cost == PeriodCost(10 * looked.value.request_cost_per_thousand, d)
    IN  IF estimated_gb_stored.tag # "num" THEN Raised(TypeErrorText, looked)
        ELSE Returned([CostData(period_storage_cost + request_cost, "S3-Bucket",
                                TRUE, "AWS Pricing API")
                         EXCEPT !.monthly_rate_per_gb = Num(looked.value.monthly_rate_per_gb),
                                !.size_gb = estimated_gb_stored], looked)

_calculate_route53_cost(resource, reg, d, resource_type, cache) ==
    IF resource_type = "hosted_zone"
    THEN Returned(CostData(PeriodCost(get_route53_pricing("hosted_zone"), d),
                           "Route53-HostedZone", FALSE, "AWS Pricing"), NoLookup(cache))
    ELSE Returned(CostData(PeriodCost(get_route53_pricing("query"), d),
                           "Route53-Queries", TRUE, "AWS Pricing"), NoLookup(cache))

FreeCategories ==
    {"vpc", "vpcs", "subnet", "subnets", "route_table", "route_tables",
     "internet_gateway", "internet_gateways", "iam_role", "iam_roles",
     "iam_policy", "iam_policies", "cloudformation_stack", "cloudformation_stacks"}

calculate_resource_cost(resource, reg, d, cache, api) ==
    LET resource_category == dispatch_category(resource)
        free(name) == Returned(_get_free_service_cost(name), NoLookup(cache))
    IN  IF ~resource.additional_info.has_info
        THEN Returned(_get_default_cost_data, NoLookup(cache))
        ELSE IF resource_category \in {"ec2_instance", "instances"}
        THEN _calculate_ec2_instance_cost(resource, reg, d, cache, api)
        ELSE IF resource_category \in {"ebs_volume", "volumes"}
        THEN _calculate_ebs_volume_cost(resource, reg, d, cache, api)
        ELSE IF resource_category \in {"security_group", "security_groups"}
        THEN free("Security-Group")
        ELSE IF resource_category \in {"network_interface", "network_interfaces"}
        THEN free("Network-Interface")
        ELSE IF resource_category \in {"classic_elb", "classic_elbs"}
        THEN _calculate_elb_cost(resource, reg, d, "classic", cache, api)
        ELSE IF resource_category \in {"alb_nlb", "albs_nlbs", "target_groups"}
        THEN _calculate_elb_cost(resource, reg, d,
                 IF resource.type # "" THEN resource.type ELSE "application", cache, api)
        ELSE IF resource_category \in {"nat_gateway", "nat_gateways"}
        THEN _calculate_nat_gateway_cost(resource, reg, d, cache, api)
        ELSE IF resource_category \in {"elastic_ip", "elastic_ips"}
        THEN _calculate_elastic_ip_cost(resource, reg, d, cache, api)
        ELSE IF resource_category \in {"vpc_endpoint", "vpc_endpoints"}
        THEN _calculate_vpc_endpoint_cost(resource, reg, d, cache, api)
        ELSE IF resource_category \in {"s3_bucket", "s3_buckets"}
        THEN _calculate_s3_bucket_cost(resource, reg, d, cache, api)
        ELSE IF resource_category \in {"route53_zone", "route53_zones"}
        THEN _calculate_route53_cost(resource, reg, d, "hosted_zone", cache)
        ELSE IF resource_category \in {"route53_record", "route53_records"}
        THEN _calculate_route53_cost(resource, reg, d, "query", cache)
        ELSE IF resource_category \in FreeCategories
        THEN free(Title(DashFrom(resource_category, 1)))
        ELSE Returned(_get_default_cost_data, NoLookup(cache))

-----------------------------------------------------------------------------
(* The retry executors: PricingService.calculate_resource_cost_with_retry  *)
(* and CostCalculatorRegistry.calculate_cost_with_retry                    *)

max_retries == 3

base_delay == 1

retriable_indicators ==
    <<"throttling", "rate exceeded", "timeout", "connection", "network",
      "service unavailable", "internal error", "temporary failure">>

non_retriable_indicators ==
    <<"access denied", "invalid parameter", "malformed", "not found", "unauthorized">>

\* a classifier that looks for the retriable indicators first
retriable_indicators_first(error) ==
    LET error_str == Lower(error)
    IN  IF \E k \in 1..Len(retriable_indicators) :
               Contains(retriable_indicators[k], error_str)
        THEN TRUE
        ELSE ~\E k \in 1..Len(non_retriable_indicators) :
                  Contains(non_retriable_indicators[k], error_str)

\* PricingService._is_retriable_error
_is_retriable_error(error) ==
    LET error_str == Lower(error)
    IN  IF \E k \in 1..Len(non_retriable_indicators) :
               Contains(non_retriable_indicators[k], error_str)
        THEN FALSE
        ELSE IF \E k \in 1..Len(retriable_indicators) :
                    Contains(retriable_indicators[k], error_str)
        THEN TRUE
        ELSE TRUE

\* a retry loop that stops one attempt early
retries_left_short(n) == n < max_retries - 1

\* `if attempt < self._max_retries` of both retry loops
retries_left(n) == n < max_retries

\* a backoff that shrinks with the attempt number
backoff_delay_shrinking(n, jitter) == base_delay * (2 ^ (max_retries - n)) + jitter

\* base_delay * (2 ** attempt) + random.uniform(0, 1), the jitter being `jitter`
backoff_delay(n, jitter) == base_delay * (2 ^ n) + jitter

\* PricingService._get_batch_fallback_cost_data
_get_batch_fallback_cost_data(exception) ==
    [CostData(0, "Unknown", TRUE, "Batch Fallback (Error: " \o Prefix(exception, 50) \o ")")
        EXCEPT !.calculation_failed = TRUE, !.error = exception,
               !.retry_attempts = Num(max_retries)]

\* CostCalculatorRegistry._get_fallback_cost_data
_get_fallback_cost_data(exception) ==
    [CostData(0, "Unknown", TRUE, "Fallback (Error: " \o Prefix(exception, 100) \o ")")
        EXCEPT !.calculation_failed = TRUE, !.error = exception]

\* what one pass of PricingService's retry loop decides after an attempt raised
\* `error` in iteration `n`: "fallback" (return the fallback data) or "sleep"
pricing_on_error(error, n) ==
    IF ~_is_retriable_error(error) THEN "fallback"
    ELSE IF retries_left(n) THEN "sleep"
    ELSE "fallback"

\* the same for the registry's loop, which does not classify the error
registry_on_error(error, n) ==
    IF retries_left(n) THEN "sleep" ELSE "fallback"

\* str(ValueError) the registry raises with no pricing service set
NotInitializedText == "Pricing service not initialized"

-----------------------------------------------------------------------------
(* The batch executors: calculate_batch_costs of both classes              *)

\* CostCalculatorRegistry._map_arn_to_category (no guard on empty arguments)
registry_map_arn_to_category(arn_service, arn_resource_type) ==
    lookup_service_map(arn_service, arn_resource_type)

\* get_priority_score of _prioritize_resources_for_batch
get_priority_score(resource) ==
    LET info == resource.additional_info
        hinted == IF info.has_info /\ info.resource_category # ""
                  THEN info.resource_category ELSE "unknown"
        category ==
            IF hinted = "unknown" /\ info.has_info
                                  /\ info.service # "" /\ info.resource_type # ""
            THEN registry_map_arn_to_category(info.service, info.resource_type)
            ELSE hinted
        priority == get_cost_priority(category)
    IN  CASE priority = "high" -> 4 [] priority = "medium" -> 3
          [] priority = "low" -> 2  [] priority = "free" -> 1
          [] OTHER -> 0

\* sorted(resources, key=get_priority_score, reverse=True): a stable sort
RECURSIVE InsertByScore(_, _)
InsertByScore(sorted, resource) ==
    IF sorted = <<>> THEN <<resource>>
    ELSE IF get_priority_score(sorted[1]) >= get_priority_score(resource)
         THEN <<sorted[1]>> \o InsertByScore(Tail(sorted), resource)
         ELSE <<resource>> \o sorted

RECURSIVE SortByScore(_, _)
SortByScore(done, rest) ==
    IF rest = <<>> THEN done
    ELSE SortByScore(InsertByScore(done, rest[1]), Tail(rest))

_prioritize_resources_for_batch(rs) == SortByScore(<<>>, rs)

\* results[resource.id] = data: a dict keeps a key's first position
SetResult(map, id, data) ==
    IF \E k \in 1..Len(map) : map[k].id = id
    THEN [k \in 1..Len(map) |-> IF map[k].id = id THEN [id |-> id, data |-> data] ELSE map[k]]
    ELSE Append(map, [id |-> id, data |-> data])

Ids(map) == {map[k].id : k \in 1..Len(map)}

GetResult(map, id) == map[CHOOSE k \in 1..Len(map) : map[k].id = id].data

\* a batch loop with no except clause: the escaped exception ends the batch
batch_reraises(exec, exception) ==
    [abort |-> TRUE, data |-> _get_default_cost_data]

\* the except clause of the batch loop: the escaped exception becomes a fallback
\* result and the loop goes on
batch_on_escape(exec, exception) ==
    [abort |-> FALSE,
     data |-> IF exec = "pricing" THEN _get_batch_fallback_cost_data(exception)
              ELSE _get_fallback_cost_data(exception)]

-----------------------------------------------------------------------------
(* Inputs of the model                                                     *)

MaxBatch == 2

Regions == {"us-east-1"}

Periods == {7, 30}

\* what the pricing client may do on a call
ApiOutcomes ==
    {[kind |-> "raises", rate |-> 0], [kind |-> "empty", rate |-> 0],
     [kind |-> "no_rate", rate |-> 0], [kind |-> "rate", rate |-> 500]}

\* an exception calculate_resource_cost lets through from below ("": none)
Faults == {"", "Connection timeout", "Access Denied on connection reset"}

\* an exception that leaves a retry wrapper
EscapeTexts == {"escaped the retry wrapper"}

\* random.uniform(0, 1): its two extremes
Jitters == {0, 1}

\* the records the executors are run on: a security group, a volume whose size
\* metadata is a string, and a generic instance
ExecPool ==
    { FromArn("sg-1", "ec2", "security-group", "us-east-1"),
      [FromArn("vol-1", "ec2", "volume", "us-east-1")
          EXCEPT !.additional_info.size_gb = BadStr],
      FromArn("i-1", "ec2", "instance", "us-east-1") }

\* the period the executors are run with
ExecPeriods == {30}

\* what one attempt meets: an exception from below, or the pricing client's answer
\* (for the executors: the client raises or answers with a rate; SpecCalc covers
\* all of ApiOutcomes)
AttemptInputs ==
    {[fault |-> f, api |-> [kind |-> "raises", rate |-> 0]] : f \in Faults \ {""}}
    \cup {[fault |-> "", api |-> a] : a \in {o \in ApiOutcomes : o.kind \in {"raises", "rate"}}}

SeqsUpTo(S, n) == UNION {[1..k -> S] : k \in 0..n}

EmptyCache == [k \in {} |-> 0]

NoCall ==
    [finished |-> FALSE, id |-> "", attempts |-> 0, sleeps |-> 0, succeeded |-> FALSE,
     escaped |-> FALSE, only_retriable |-> TRUE, error |-> "",
     data |-> CostData(0, "", FALSE, "")]

NoOutcome ==
    [made |-> FALSE, api |-> [kind |-> "raises", rate |-> 0],
     result |-> Returned(CostData(0, "", FALSE, ""), NoLookup(EmptyCache))]

NoSummary == [built |-> FALSE]

NoArgs == [cost_threshold |-> Absent, cost_filter |-> "", sort_by_cost |-> FALSE]

COST_THRESHOLDS ==
    [high_cost_resource |-> 50, medium_cost_resource |-> 10, optimization_threshold |-> 100]

ExecIdle ==
    /\ queue = <<>> /\ idx = 0 /\ attempt = 0 /\ last_exception = ""
    /\ attempts_made = 0 /\ sleeps_made = 0 /\ only_retriable = TRUE /\ last_delay = 0
    /\ results = <<>> /\ processed = 0 /\ progress = <<>> /\ last_call = NoCall

CalcIdle == price_cache = EmptyCache /\ ncalls = 0 /\ outcome = NoOutcome /\ lookups = <<>>

NoStats == [generated |-> FALSE]

ClassIdle == classified = <<>>

\* no analysis asked for yet
NotRun == [made |-> FALSE]

TrendIdle ==
    /\ historical_cost_data = <<>> /\ current_cost = 0 /\ forecast_days = 90
    /\ trend_analysis = NotRun /\ cost_forecast = NotRun

AggIdle ==
    /\ cost_results = <<>> /\ cost_thresholds = COST_THRESHOLDS /\ clock = 0
    /\ summary = NoSummary /\ previous = NoSummary /\ args = NoArgs
    /\ filtered = NoSummary /\ validation_stats = NoStats

-----------------------------------------------------------------------------
(* Spec: a batch run of either executor                                    *)

Init ==
    /\ resources \in SeqsUpTo(ExecPool, MaxBatch)
    /\ region \in Regions
    /\ days \in ExecPeriods
    /\ executor \in {"pricing", "registry"}
    /\ service_set \in BOOLEAN
    /\ executor = "pricing" => service_set
    /\ pc = "ready"
    /\ ExecIdle /\ CalcIdle /\ AggIdle /\ ClassIdle /\ TrendIdle

\* calculate_batch_costs is called: the registry prioritizes, PricingService does not
StartBatch ==
    /\ pc = "ready"
    /\ pc' = "run"
    /\ queue' = IF executor = "registry" THEN _prioritize_resources_for_batch(resources)
                ELSE resources
    /\ idx' = 1
    /\ UNCHANGED <<inputVars, classVars, trendVars, executor, service_set, attempt, last_exception,
                   attempts_made, sleeps_made, only_retriable, last_delay, results,
                   processed, progress, last_call, calcVars, aggVars>>

HasTerminalIndicator(text) ==
    \E ind \in {"access denied", "invalid parameter", "malformed", "not found",
                "unauthorized"} : Contains(ind, Lower(text))

\* variant of progress_callback's call made before the resource is counted
progress_callback_before_count(calls, count, total) ==
    Append(calls, <<count - 1, total>>)

\* progress_callback(processed, total_resources), recorded as a call
progress_callback(calls, count, total) ==
    Append(calls, <<count, total>>)

\* the wrapper call for queue[idx] ends with `data`: the batch loop stores it,
\* counts the resource and calls progress_callback
FinishResource(data, call) ==
    /\ results' = SetResult(results, queue[idx].id, data)
    /\ processed' = processed + 1
    /\ progress' = progress_callback(progress, processed + 1, Len(resources))
    /\ last_call' = [call EXCEPT !.finished = TRUE, !.id = queue[idx].id, !.data = data]
    /\ idx' = idx + 1
    /\ attempt' = 0 /\ last_exception' = "" /\ attempts_made' = 0
    /\ sleeps_made' = 0 /\ only_retriable' = TRUE /\ last_delay' = 0

\* one pass of a retry loop: the attempt, and on an error the decision and the sleep
RetryPass(out, decision, fallback_data) ==
    LET call == [NoCall EXCEPT !.attempts = attempts_made + 1, !.sleeps = sleeps_made,
                               !.only_retriable =
                                   only_retriable /\ (out.raised => ~HasTerminalIndicator(out.error)),
                               !.succeeded = ~out.raised, !.error = out.error]
    IN  /\ price_cache' = out.cache
        /\ IF ~out.raised THEN FinishResource(out.data, call)
           ELSE IF decision = "fallback" THEN FinishResource(fallback_data, call)
           ELSE /\ attempt' = attempt + 1
                /\ last_exception' = out.error
                /\ attempts_made' = attempts_made + 1
                /\ sleeps_made' = sleeps_made + 1
                /\ only_retriable' = call.only_retriable
                /\ \E jitter \in Jitters : last_delay' = backoff_delay(attempt, jitter)
                /\ UNCHANGED <<idx, results, processed, progress, last_call>>
        /\ UNCHANGED <<inputVars, classVars, trendVars, pc, executor, service_set, queue, ncalls, outcome, lookups, aggVars>>

\* PricingService.calculate_resource_cost_with_retry, one loop pass
PricingAttempt ==
    /\ pc = "run" /\ executor = "pricing" /\ idx <= Len(queue)
    /\ \E in \in AttemptInputs :
         LET out == IF in.fault # "" THEN Raised(in.fault, NoLookup(price_cache))
                    ELSE calculate_resource_cost(queue[idx], region, days, price_cache, in.api)
         IN  RetryPass(out, pricing_on_error(out.error, attempt),
                       _get_batch_fallback_cost_data(out.error))

\* CostCalculatorRegistry.calculate_cost_with_retry, one loop pass
RegistryAttempt ==
    /\ pc = "run" /\ executor = "registry" /\ idx <= Len(queue)
    /\ \E in \in AttemptInputs :
         LET out == IF ~service_set THEN Raised(NotInitializedText, NoLookup(price_cache))
                    ELSE IF in.fault # "" THEN Raised(in.fault, NoLookup(price_cache))
                    ELSE calculate_resource_cost(queue[idx], region, days, price_cache, in.api)
         IN  RetryPass(out, registry_on_error(out.error, attempt),
                       _get_fallback_cost_data(out.error))

\* an exception leaves the retry wrapper: the batch loop's except clause
WrapperEscapes ==
    /\ pc = "run" /\ idx <= Len(queue)
    /\ \E e \in EscapeTexts :
         LET caught == batch_on_escape(executor, e)
             call == [NoCall EXCEPT !.attempts = attempts_made, !.sleeps = sleeps_made,
                                    !.only_retriable = only_retriable,
                                    !.escaped = TRUE, !.error = e]
         IN  IF caught.abort
             THEN /\ pc' = "aborted"
                  /\ UNCHANGED <<inputVars, classVars, trendVars, execVars, calcVars, aggVars>>
             ELSE /\ FinishResource(caught.data, call)
                  /\ UNCHANGED <<inputVars, classVars, trendVars, pc, executor, service_set, queue, calcVars, aggVars>>

\* the batch loop is over: calculate_batch_costs returns results
ReturnResults ==
    /\ pc = "run" /\ idx > Len(queue)
    /\ pc' = "done"
    /\ UNCHANGED <<inputVars, classVars, trendVars, execVars, calcVars, aggVars>>

\* _generate_validation_stats(cost_results, resources): the counts of the returned
\* dict (its strings show each count followed by a percentage of calculated_costs,
\* or "0" when nothing was calculated)
_generate_validation_stats(results_map, rs) ==
    LET total_resources == Len(rs)
        calculated_costs == Len(results_map)
        estimated_count == Len(SelectSeq(results_map, LAMBDA e : e.data.is_estimated))
        failed_count == Len(SelectSeq(results_map, LAMBDA e : e.data.calculation_failed))
        precise_count == calculated_costs - estimated_count - failed_count
    IN  [generated |-> TRUE,
         total_resources |-> total_resources,
         costs_calculated |-> calculated_costs,
         precise_pricing |-> IF calculated_costs > 0 THEN precise_count ELSE 0,
         estimated_pricing |-> IF calculated_costs > 0 THEN estimated_count ELSE 0,
         failed_calculations |-> failed_count]

\* main prints the validation statistics of the batch's results (--cost-validation)
GenerateValidationStats ==
    /\ pc = "done"
    /\ pc' = "validated"
    /\ validation_stats' = _generate_validation_stats(results, resources)
    /\ UNCHANGED <<inputVars, classVars, trendVars, execVars, calcVars, cost_results, cost_thresholds, clock,
                   summary, previous, args, filtered>>

Next ==
    \/ StartBatch \/ PricingAttempt \/ RegistryAttempt \/ WrapperEscapes \/ ReturnResults
    \/ GenerateValidationStats

Spec == Init /\ [][Next]_vars

-----------------------------------------------------------------------------
(* Properties of the retry and batch executors (Spec)                      *)

\* a finished retry-wrapper call all of whose attempts failed with a retriable error
AllAttemptsFailedRetriable ==
    /\ last_call.finished /\ ~last_call.escaped
    /\ ~last_call.succeeded /\ last_call.only_retriable

IsFallbackResult(data) ==
    data.total_cost = 0 /\ data.is_estimated /\ data.calculation_failed

\* C1: when every attempt for a resource fails with a retriable error, the retry
\* executor (of either class) makes exactly max_retries + 1 attempts and then returns
\* a fallback result: total_cost 0, is_estimated and calculation_failed both true.
C1_RetryCeiling ==
    /\ attempts_made <= max_retries
    /\ AllAttemptsFailedRetriable =>
          /\ last_call.attempts = max_retries + 1
          /\ last_call.sleeps = max_retries
          /\ IsFallbackResult(last_call.data)

C1_Witness ==
    /\ AllAttemptsFailedRetriable
    /\ last_call.attempts = 4
    /\ last_call.error = "Connection timeout"
    /\ IsFallbackResult(GetResult(results, last_call.id))

\* C2: in PricingService.calculate_resource_cost_with_retry an attempt that fails
\* with a terminal error (a terminal indicator in the lower-cased text, whatever
\* else the text holds) is the last one: no retry is pending after it, no sleep
\* follows it, the fallback result is returned, and when it was the first attempt
\* the call made exactly 1 attempt.
C2_TerminalStopsRetry ==
    executor = "pricing" =>
       /\ only_retriable
       /\ ~HasTerminalIndicator(last_exception)
       /\ (/\ last_call.finished /\ ~last_call.escaped /\ ~last_call.succeeded
           /\ HasTerminalIndicator(last_call.error))
          => /\ IsFallbackResult(last_call.data)
             /\ last_call.sleeps = last_call.attempts - 1
             /\ (last_call.sleeps = 0 => last_call.attempts = 1)

C2_Witness ==
    /\ executor = "pricing"
    /\ last_call.finished /\ ~last_call.succeeded /\ ~last_call.escaped
    /\ HasTerminalIndicator(last_call.error)
    /\ Contains("connection", Lower(last_call.error))
    /\ last_call.attempts = 1 /\ last_call.sleeps = 0
    /\ IsFallbackResult(last_call.data)

\* C3: calculate_batch_costs (of either class) never ends by raising, whatever the
\* failures (retriable, terminal, escaping the retry wrapper): every resource
\* reached so far has a result under its id, and when the call returns the map
\* holds a result under the id of every input resource.
C3_BatchAlwaysCompletes ==
    /\ pc # "aborted"
    /\ pc \in {"run", "done"} =>
          /\ processed = idx - 1
          /\ \A k \in 1..(idx - 1) : queue[k].id \in Ids(results)
    /\ pc = "done" =>
          /\ processed = Len(resources)
          /\ \A k \in 1..Len(resources) : resources[k].id \in Ids(results)

C3_Witness ==
    /\ pc = "done" /\ Len(queue) = 2 /\ queue[1].id # queue[2].id
    /\ GetResult(results, queue[1].id).calculation_failed
    /\ last_call.escaped /\ last_call.id = queue[2].id
    /\ Ids(results) = {queue[1].id, queue[2].id}

-----------------------------------------------------------------------------
(* SpecCalc: calculate_resource_cost called again and again on one record, *)
(* the price cache living on between the calls                             *)

MaxCalls == 2

\* the records the calculator is called on: what Resource Groups discovery builds
\* for the kinds a cluster holds, enriched or not, a record of the legacy EC2
\* discovery, an instance record with no type, and a record with no metadata
CalcPool ==
    { FromArn("i-1", "ec2", "instance", "us-east-1"),
      [FromArn("i-2", "ec2", "instance", "us-east-1")
          EXCEPT !.additional_info.instance_type = "m5.large"],
      FromArn("vol-1", "ec2", "volume", "us-east-1"),
      [FromArn("vol-2", "ec2", "volume", "us-east-1")
          EXCEPT !.additional_info.size_gb = Num(100),
                 !.additional_info.volume_type = "gp3"],
      [FromArn("vol-3", "ec2", "volume", "us-east-1")
          EXCEPT !.additional_info.size_gb = BadStr],
      FromArn("nat-1", "ec2", "natgateway", "us-east-1"),
      FromArn("eip-1", "ec2", "elastic-ip", "us-east-1"),
      FromArn("vpce-1", "ec2", "vpc-endpoint", "us-east-1"),
      FromArn("sg-1", "ec2", "security-group", "us-east-1"),
      FromArn("subnet-1", "ec2", "subnet", "us-east-1"),
      FromArn("lb-1", "elasticloadbalancing", "loadbalancer", "us-east-1"),
      FromArn("tg-1", "elasticloadbalancing", "targetgroup", "us-east-1"),
      FromArn("bucket-1", "s3", "bucket-1", ""),
      FromArn("zone-1", "route53", "hostedzone", ""),
      FromArn("role-1", "iam", "role", ""),
      FromArn("fn-1", "lambda", "function", "us-east-1"),
      ResourceInfo("i-3", "t3.micro", "us-east-1",
                   [Info EXCEPT !.resource_category = "ec2_instance"]),
      ResourceInfo("i-4", "", "us-east-1",
                   [Info EXCEPT !.resource_category = "instances"]),
      ResourceInfo("x-1", "instances", "us-east-1", NoInfo) }

InitCalc ==
    /\ resources \in {<<r>> : r \in CalcPool}
    /\ region \in Regions
    /\ days \in Periods
    /\ executor = "pricing" /\ service_set = TRUE
    /\ pc = "calc"
    /\ ExecIdle /\ CalcIdle /\ AggIdle /\ ClassIdle /\ TrendIdle

\* PricingService.calculate_resource_cost(resources[1], region, days)
Calculate ==
    /\ pc = "calc" /\ ncalls < MaxCalls
    /\ \E api \in ApiOutcomes :
         LET out == calculate_resource_cost(resources[1], region, days, price_cache, api)
         IN  /\ outcome' = [made |-> TRUE, api |-> api, result |-> out]
             /\ price_cache' = out.cache
             /\ lookups' = lookups \o out.called
    /\ ncalls' = ncalls + 1
    /\ UNCHANGED <<inputVars, classVars, trendVars, pc, execVars, aggVars>>

NextCalc == Calculate

SpecCalc == InitCalc /\ [][NextCalc]_vars

-----------------------------------------------------------------------------
(* Properties of the calculator (SpecCalc)                                 *)

\* C9: the kind CostAggregator._determine_resource_type derives for a record is the
\* kind PricingService.calculate_resource_cost dispatches on when it prices it, so
\* the cost category of the aggregation matches the pricing rule.
C9_KindsAgree ==
    outcome.made =>
       /\ _determine_resource_type(resources[1]) = dispatch_category(resources[1])
       /\ get_cost_category(_determine_resource_type(resources[1]))
             = get_cost_category(dispatch_category(resources[1]))

\* C10: calculate_resource_cost never raises: every call returns a result.
C10_NeverRaises == outcome.made => ~outcome.result.raised

-----------------------------------------------------------------------------
(* The aggregator: cost/cost_aggregator.py.  Costs are whole dollars here;  *)
(* a value the code gets by a float division or multiplication is kept as  *)
(* the exact fraction [num, den].                                          *)

Frac(n, d) == [num |-> n, den |-> d]

Whole(n) == Frac(n, 1)

FracEq(a, b) == a.num * b.den = b.num * a.den

RECURSIVE SumCosts(_)
SumCosts(summaries) ==
    IF summaries = <<>> THEN 0
    ELSE summaries[1].total_cost + SumCosts(Tail(summaries))

\* lst[:n]
Take(lst, n) == IF Len(lst) <= n THEN lst ELSE SubSeq(lst, 1, n)

\* sorted(lst, key=total_cost, reverse=True): stable, equal costs keep their order
RECURSIVE SortByCostDesc(_)
SortByCostDesc(lst) ==
    IF lst = <<>> THEN <<>>
    ELSE LET rest == SortByCostDesc(SubSeq(lst, 1, Len(lst) - 1))
             x == lst[Len(lst)]
             before == SelectSeq(rest, LAMBDA s : s.total_cost >= x.total_cost)
             after == SelectSeq(rest, LAMBDA s : s.total_cost < x.total_cost)
         IN  before \o <<x>> \o after

\* sorted(costs): ascending
RECURSIVE SortAsc(_)
SortAsc(costs) ==
    IF costs = <<>> THEN <<>>
    ELSE LET rest == SortAsc(Tail(costs))
         IN  SelectSeq(rest, LAMBDA c : c < costs[1]) \o <<costs[1]>>
                 \o SelectSeq(rest, LAMBDA c : c >= costs[1])

\* a loop that summarises every cost result, found in resource_lookup or not
RECURSIVE resource_summaries_with_orphans(_, _, _)
resource_summaries_with_orphans(results_map, rs, reg) ==
    IF results_map = <<>> THEN <<>>
    ELSE LET entry == results_map[1]
             found == {k \in 1..Len(rs) : rs[k].id = entry.id}
             resource == IF found = {} THEN ResourceInfo(entry.id, "unknown", reg, NoInfo)
                         ELSE rs[CHOOSE k \in found : \A j \in found : j <= k]
             resource_type == _determine_resource_type(resource)
         IN  << [ resource_id |-> resource.id,
                  resource_type |-> resource_type,
                  service |-> entry.data.service,
                  region |-> IF resource.region # "" THEN resource.region ELSE reg,
                  cost_category |-> get_cost_category(resource_type),
                  cost_priority |-> get_cost_priority(resource_type),
                  total_cost |-> entry.data.total_cost,
                  is_estimated |-> entry.data.is_estimated,
                  pricing_source |-> entry.data.pricing_source,
                  calculation_failed |-> entry.data.calculation_failed ] >>
                \o resource_summaries_with_orphans(Tail(results_map), rs, reg)

\* the for loop of aggregate_costs: one ResourceCostSummary per cost result whose
\* id is in resource_lookup, in the order of cost_results
RECURSIVE resource_summaries_of(_, _, _)
resource_summaries_of(results_map, rs, reg) ==
    IF results_map = <<>> THEN <<>>
    ELSE LET entry == results_map[1]
             found == {k \in 1..Len(rs) : rs[k].id = entry.id}
             rest == resource_summaries_of(Tail(results_map), rs, reg)
         IN  IF found = {} THEN rest
             ELSE LET resource == rs[CHOOSE k \in found : \A j \in found : j <= k]
                      resource_type == _determine_resource_type(resource)
                  IN  << [ resource_id |-> resource.id,
                           resource_type |-> resource_type,
                           service |-> entry.data.service,
                           region |-> IF resource.region # "" THEN resource.region ELSE reg,
                           cost_category |-> get_cost_category(resource_type),
                           cost_priority |-> get_cost_priority(resource_type),
                           total_cost |-> entry.data.total_cost,
                           is_estimated |-> entry.data.is_estimated,
                           pricing_source |-> entry.data.pricing_source,
                           calculation_failed |-> entry.data.calculation_failed ] >> \o rest

_calculate_cost_by_category(summaries) ==
    [c \in {summaries[k].cost_category : k \in 1..Len(summaries)} |->
        SumCosts(SelectSeq(summaries, LAMBDA s : s.cost_category = c))]

_calculate_cost_by_service(summaries) ==
    [c \in {summaries[k].service : k \in 1..Len(summaries)} |->
        SumCosts(SelectSeq(summaries, LAMBDA s : s.service = c))]

_calculate_cost_by_priority(summaries) ==
    [c \in {summaries[k].cost_priority : k \in 1..Len(summaries)} |->
        SumCosts(SelectSeq(summaries, LAMBDA s : s.cost_priority = c))]

\* a region breakdown that leaves out the summaries with no region
cost_by_named_region(summaries) ==
    [c \in {summaries[k].region : k \in 1..Len(summaries)} \ {""} |->
        SumCosts(SelectSeq(summaries, LAMBDA s : s.region = c))]

\* a summary with no region counts under 'Unknown'
region_key(s) == IF s.region # "" THEN s.region ELSE "Unknown"

_calculate_cost_by_region(summaries) ==
    [c \in {region_key(summaries[k]) : k \in 1..Len(summaries)} |->
        SumCosts(SelectSeq(summaries, LAMBDA s : region_key(s) = c))]

NoAnalysis == [empty |-> TRUE]

\* the lower middle position of n sorted costs
median_index_lower(n) == (n + 1) \div 2

\* len(costs) // 2 of median_cost, as a position counted from 1
median_index(n) == (n \div 2) + 1

_analyze_cost_distribution(summaries, thresholds) ==
    IF summaries = <<>> THEN NoAnalysis
    ELSE LET costs == [k \in 1..Len(summaries) |-> summaries[k].total_cost]
             total_cost == SumSeq(costs)
             high == thresholds.high_cost_resource
             medium == thresholds.medium_cost_resource
             top_5_cost == SumCosts(Take(SortByCostDesc(summaries), 5))
         IN  [ empty |-> FALSE,
               total_cost |-> total_cost,
               resource_counts |->
                  [ high_cost |-> Len(SelectSeq(summaries, LAMBDA s : s.total_cost >= high)),
                    medium_cost |-> Len(SelectSeq(summaries,
                        LAMBDA s : medium <= s.total_cost /\ s.total_cost < high)),
                    low_cost |-> Len(SelectSeq(summaries,
                        LAMBDA s : 0 < s.total_cost /\ s.total_cost < medium)),
                    zero_cost |-> Len(SelectSeq(summaries, LAMBDA s : s.total_cost = 0)) ],
               cost_concentration |->
                  [ top_5_resources_cost |-> top_5_cost,
                    top_5_percentage |-> IF total_cost > 0 THEN Frac(top_5_cost * 100, total_cost)
                                         ELSE Whole(0),
                    average_cost_per_resource |-> Frac(total_cost, Len(summaries)),
                    median_cost |-> SortAsc(costs)[median_index(Len(costs))] ],
               cost_thresholds |-> thresholds ]

\* the suggestion for one high-cost resource, its saving in tenths of its cost
_get_resource_optimization_suggestions(resource) ==
    LET suggest(type, tenths) ==
            << [resource_id |-> resource.resource_id, type |-> type,
                potential_monthly_savings |-> Frac(resource.total_cost * tenths, 10)] >>
    IN  IF resource.cost_category = "billable_networking"
        THEN IF resource.resource_type = "nat_gateways"
             THEN suggest("NAT Gateway Optimization", 5)
             ELSE IF resource.resource_type = "elastic_ips"
             THEN suggest("Elastic IP Optimization", 10)
             ELSE <<>>
        ELSE IF resource.cost_category = "billable_compute"
        THEN IF resource.total_cost > 100 THEN suggest("Instance Right-sizing", 2) ELSE <<>>
        ELSE IF resource.cost_category = "billable_storage"
        THEN IF resource.resource_type = "s3_buckets"
             THEN suggest("S3 Storage Class Optimization", 3)
             ELSE <<>>
        ELSE <<>>

RECURSIVE SuggestionsFor(_)
SuggestionsFor(high_cost_resources) ==
    IF high_cost_resources = <<>> THEN <<>>
    ELSE _get_resource_optimization_suggestions(high_cost_resources[1])
             \o SuggestionsFor(Tail(high_cost_resources))

RECURSIVE SavingsTenths(_)
SavingsTenths(suggestions) ==
    IF suggestions = <<>> THEN 0
    ELSE suggestions[1].potential_monthly_savings.num + SavingsTenths(Tail(suggestions))

_analyze_optimization_potential(summaries, total_cost, thresholds) ==
    LET high_cost_resources ==
            SelectSeq(summaries, LAMBDA s : s.total_cost >= thresholds.high_cost_resource)
        optimization_suggestions == SuggestionsFor(high_cost_resources)
        potential_savings == Frac(SavingsTenths(optimization_suggestions), 10)
    IN  [ needs_optimization |-> total_cost > thresholds.optimization_threshold,
          optimization_priority |-> IF total_cost > 200 THEN "HIGH"
                                    ELSE IF total_cost > 100 THEN "MEDIUM" ELSE "LOW",
          total_potential_savings |-> potential_savings,
          savings_percentage |-> IF total_cost > 0
                                 THEN Frac(potential_savings.num * 100, 10 * total_cost)
                                 ELSE Whole(0),
          high_cost_resource_count |-> Len(high_cost_resources),
          optimization_suggestions |-> optimization_suggestions ]

\* the totals an aggregator that kept them on the object would report on call `now`
aggregate_costs_accumulating(thresholds, results_map, rs, reg, period_days, now) ==
    LET resource_summaries == resource_summaries_of(results_map, rs, reg)
        total_cost == SumCosts(resource_summaries) * now
        billable_cost ==
            now * SumCosts(SelectSeq(resource_summaries, LAMBDA s : is_billable(s.resource_type)))
        multiplier == IF period_days # 30 THEN Frac(30, period_days) ELSE Whole(1)
    IN  [ built |-> TRUE, region |-> reg, analysis_date |-> now, period_days |-> period_days,
          total_monthly_cost |-> Frac(total_cost * multiplier.num, multiplier.den),
          total_billable_cost |-> Frac(billable_cost * multiplier.num, multiplier.den),
          total_resources |-> Len(resource_summaries),
          billable_resources |->
              Len(SelectSeq(resource_summaries, LAMBDA s : is_billable(s.resource_type))),
          free_resources |-> Len(SelectSeq(resource_summaries, LAMBDA s : is_free(s.resource_type))),
          cost_by_category |-> _calculate_cost_by_category(resource_summaries),
          cost_by_service |-> _calculate_cost_by_service(resource_summaries),
          cost_by_priority |-> _calculate_cost_by_priority(resource_summaries),
          cost_by_region |-> _calculate_cost_by_region(resource_summaries),
          resource_summaries |-> resource_summaries,
          highest_cost_resources |-> Take(SortByCostDesc(resource_summaries), 10),
          cost_distribution_analysis |-> _analyze_cost_distribution(resource_summaries, thresholds),
          optimization_potential |->
              _analyze_optimization_potential(resource_summaries, total_cost, thresholds) ]

\* a multiplier turned upside down
inverted_multiplier(period_days) ==
    IF period_days # 30 THEN Frac(period_days, 30) ELSE Whole(1)

\* monthly_multiplier = 30.0 / period_days if period_days != 30 else 1.0
monthly_multiplier(period_days) ==
    IF period_days # 30 THEN Frac(30, period_days) ELSE Whole(1)

Scaled(amount, multiplier) == Frac(amount * multiplier.num, multiplier.den)

\* CostAggregator.aggregate_costs; `thresholds` is self.cost_thresholds and `now`
\* is datetime.now()
aggregate_costs(thresholds, results_map, rs, reg, period_days, now) ==
    LET resource_summaries == resource_summaries_of(results_map, rs, reg)
        total_cost == SumCosts(resource_summaries)
        billable_cost ==
            SumCosts(SelectSeq(resource_summaries, LAMBDA s : is_billable(s.resource_type)))
    IN  [ built |-> TRUE, region |-> reg, analysis_date |-> now, period_days |-> period_days,
          total_monthly_cost |-> Scaled(total_cost, monthly_multiplier(period_days)),
          total_billable_cost |-> Scaled(billable_cost, monthly_multiplier(period_days)),
          total_resources |-> Len(resource_summaries),
          billable_resources |->
              Len(SelectSeq(resource_summaries, LAMBDA s : is_billable(s.resource_type))),
          free_resources |-> Len(SelectSeq(resource_summaries, LAMBDA s : is_free(s.resource_type))),
          cost_by_category |-> _calculate_cost_by_category(resource_summaries),
          cost_by_service |-> _calculate_cost_by_service(resource_summaries),
          cost_by_priority |-> _calculate_cost_by_priority(resource_summaries),
          cost_by_region |-> _calculate_cost_by_region(resource_summaries),
          resource_summaries |-> resource_summaries,
          highest_cost_resources |-> Take(SortByCostDesc(resource_summaries), 10),
          cost_distribution_analysis |-> _analyze_cost_distribution(resource_summaries, thresholds),
          optimization_potential |->
              _analyze_optimization_potential(resource_summaries, total_cost, thresholds) ]

-----------------------------------------------------------------------------
(* The post-hoc filter: main.py _apply_cost_filters_and_sorting            *)

\* the `if args.cost_filter == ...` chain
passes_cost_filter(r, cost_filter) ==
    IF cost_filter = "high" THEN r.total_cost >= 50
    ELSE IF cost_filter = "medium" THEN 10 <= r.total_cost /\ r.total_cost < 50
    ELSE IF cost_filter = "low" THEN 0 < r.total_cost /\ r.total_cost < 10
    ELSE IF cost_filter = "billable" THEN r.total_cost > 0
    ELSE IF cost_filter = "free" THEN r.total_cost = 0
    ELSE TRUE

\* filtered_resources after the two filters and the sort
filtered_resources_of(s, a) ==
    LET copy == s.resource_summaries
        by_threshold == IF a.cost_threshold.tag = "num"
                        THEN SelectSeq(copy, LAMBDA r : r.total_cost >= a.cost_threshold.v)
                        ELSE copy
        by_level == IF a.cost_filter # ""
                    THEN SelectSeq(by_threshold, LAMBDA r : passes_cost_filter(r, a.cost_filter))
                    ELSE by_threshold
    IN  IF a.sort_by_cost THEN SortByCostDesc(by_level) ELSE by_level

_apply_cost_filters_and_sorting(s, a) ==
    LET filtered_resources == filtered_resources_of(s, a)
        billable_count == Len(SelectSeq(filtered_resources, LAMBDA r : r.total_cost > 0))
    IN  IF Len(filtered_resources) # Len(s.resource_summaries)
        THEN [ built |-> TRUE, region |-> s.region, analysis_date |-> s.analysis_date,
               period_days |-> s.period_days,
               total_monthly_cost |-> Whole(SumCosts(filtered_resources)),
               total_billable_cost |->
                   Whole(SumCosts(SelectSeq(filtered_resources, LAMBDA r : r.total_cost > 0))),
               total_resources |-> Len(filtered_resources),
               billable_resources |-> billable_count,
               free_resources |-> Len(filtered_resources) - billable_count,
               cost_by_category |-> _calculate_cost_by_category(filtered_resources),
               cost_by_service |-> _calculate_cost_by_service(filtered_resources),
               cost_by_priority |-> _calculate_cost_by_priority(filtered_resources),
               cost_by_region |-> s.cost_by_region,
               resource_summaries |-> filtered_resources,
               highest_cost_resources |-> Take(SortByCostDesc(filtered_resources), 10),
               cost_distribution_analysis |-> s.cost_distribution_analysis,
               optimization_potential |-> s.optimization_potential ]
        ELSE s

-----------------------------------------------------------------------------
(* SpecAgg: aggregate_costs on one set of inputs, once or again, then the  *)
(* post-hoc filter on its summary                                          *)

MaxResources == 3

MaxAggregations == 2

\* the records aggregate_costs is given: an instance, a NAT gateway of another
\* region, and a bucket, which has no region
AggResources ==
    << FromArn("i-1", "ec2", "instance", "us-east-1"),
       FromArn("nat-1", "ec2", "natgateway", "us-west-2"),
       FromArn("bucket-1", "s3", "bucket-1", "") >>

\* the region argument: the cluster's region, or none
AggRegions == {"us-east-1", ""}

\* period costs in dollars: free, low, medium and high
Costs == {0, 5, 25, 100}

\* the cost results: what the calculator returns for the three records, and a
\* result under an id no record has
CostEntries ==
    {[id |-> "i-1", data |-> CostData(c, "EC2-Instance", FALSE, "AWS Pricing API")] : c \in Costs}
    \cup {[id |-> "nat-1", data |-> CostData(c, "NAT-Gateway", TRUE, "AWS Pricing API")] : c \in Costs}
    \cup {[id |-> "bucket-1", data |-> CostData(c, "S3-Bucket", TRUE, "AWS Pricing API")] : c \in Costs}
    \cup {[id |-> "gone-1", data |-> CostData(100, "EC2-Instance", FALSE, "AWS Pricing API")]}

\* a dict has each key once
DistinctIds(map) == \A j, k \in 1..Len(map) : map[j].id = map[k].id => j = k

CostResultMaps == {map \in SeqsUpTo(CostEntries, MaxResources) : DistinctIds(map)}

FilterArgs ==
    [cost_threshold : {Absent, Num(20)},
     cost_filter : {"", "high", "medium", "low", "billable", "free"},
     sort_by_cost : BOOLEAN]

InitAgg ==
    /\ resources = AggResources
    /\ cost_results \in CostResultMaps
    /\ region \in AggRegions
    /\ days \in Periods
    /\ executor = "pricing" /\ service_set = TRUE
    /\ pc = "ready"
    /\ ExecIdle /\ CalcIdle /\ ClassIdle /\ TrendIdle
    /\ cost_thresholds = COST_THRESHOLDS /\ clock = 0
    /\ summary = NoSummary /\ previous = NoSummary /\ args = NoArgs /\ filtered = NoSummary
    /\ validation_stats = NoStats

\* aggregator.aggregate_costs(cost_results, resources, cluster_id, region, days)
AggregateCosts ==
    /\ pc \in {"ready", "aggregated"} /\ clock < MaxAggregations
    /\ clock' = clock + 1
    /\ summary' = aggregate_costs(cost_thresholds, cost_results, resources, region, days,
                                  clock + 1)
    /\ previous' = summary
    /\ pc' = "aggregated"
    /\ UNCHANGED <<inputVars, classVars, trendVars, execVars, calcVars, cost_results, cost_thresholds, args, filtered,
                   validation_stats>>

\* _apply_cost_filters_and_sorting(summary, args): works on a copy of the list
ApplyFilter ==
    /\ pc = "aggregated"
    /\ \E a \in FilterArgs :
         /\ args' = a
         /\ filtered' = _apply_cost_filters_and_sorting(summary, a)
    /\ pc' = "filtered"
    /\ UNCHANGED <<inputVars, classVars, trendVars, execVars, calcVars, cost_results, cost_thresholds, clock,
                   summary, previous, validation_stats>>

NextAgg == AggregateCosts \/ ApplyFilter

SpecAgg == InitAgg /\ [][NextAgg]_vars

-----------------------------------------------------------------------------
(* Properties of the aggregator and the filter (SpecAgg)                   *)

RECURSIVE SumOfKeys(_, _)
SumOfKeys(map, keys) ==
    IF keys = {} THEN 0
    ELSE LET k == CHOOSE x \in keys : TRUE
         IN  map[k] + SumOfKeys(map, keys \ {k})

SumValues(map) == SumOfKeys(map, DOMAIN map)

\* the cost results whose id a resource record has
JoinedEntries ==
    SelectSeq(cost_results, LAMBDA e : \E k \in 1..Len(resources) : resources[k].id = e.id)

EntryResource(e) == resources[CHOOSE k \in 1..Len(resources) : resources[k].id = e.id]

RECURSIVE SumEntries(_)
SumEntries(entries) ==
    IF entries = <<>> THEN 0 ELSE entries[1].data.total_cost + SumEntries(Tail(entries))

\* the raw period total, and its billable part, taken from the inputs
RawTotal == SumEntries(JoinedEntries)

RawBillable ==
    SumEntries(SelectSeq(JoinedEntries,
        LAMBDA e : is_billable(_determine_resource_type(EntryResource(e)))))

\* C4: in every aggregate_costs output each of the four breakdown maps sums to the
\* un-scaled total of the joined resources' costs, every resource counting under
\* exactly one key of each map.
C4_BreakdownsSumToTotal ==
    summary.built =>
       /\ SumValues(summary.cost_by_category) = RawTotal
       /\ SumValues(summary.cost_by_service) = RawTotal
       /\ SumValues(summary.cost_by_priority) = RawTotal
       /\ SumValues(summary.cost_by_region) = RawTotal
       /\ \A k \in 1..Len(summary.resource_summaries) :
             LET s == summary.resource_summaries[k]
             IN  /\ s.cost_category \in DOMAIN summary.cost_by_category
                 /\ s.service \in DOMAIN summary.cost_by_service
                 /\ s.cost_priority \in DOMAIN summary.cost_by_priority
                 /\ (IF s.region = "" THEN "Unknown" ELSE s.region)
                        \in DOMAIN summary.cost_by_region

C4_Witness ==
    /\ summary.built /\ region = ""
    /\ Len(summary.resource_summaries) = 2 /\ Len(cost_results) = 3
    /\ DOMAIN summary.cost_by_region = {"Unknown", "us-east-1"}
    /\ summary.cost_by_region["Unknown"] = 25
    /\ summary.cost_by_category = [billable_storage |-> 25, billable_compute |-> 100]
    /\ RawTotal = 125

\* C5: total_monthly_cost and total_billable_cost are the raw period totals when
\* period_days is 30 and the raw totals times 30/period_days otherwise, while the
\* four breakdown maps keep the raw period amounts.
C5_MonthlyScaling ==
    summary.built =>
       /\ days = 30 => /\ FracEq(summary.total_monthly_cost, Whole(RawTotal))
                       /\ FracEq(summary.total_billable_cost, Whole(RawBillable))
       /\ days # 30 => /\ FracEq(summary.total_monthly_cost, Frac(RawTotal * 30, days))
                       /\ FracEq(summary.total_billable_cost, Frac(RawBillable * 30, days))
       /\ \A map \in {summary.cost_by_category, summary.cost_by_service,
                      summary.cost_by_priority, summary.cost_by_region} :
             SumValues(map) = RawTotal

C5_Witness ==
    /\ summary.built /\ days = 7 /\ RawTotal = 105
    /\ summary.total_monthly_cost.num * 7 = 105 * 30 * summary.total_monthly_cost.den
    /\ SumValues(summary.cost_by_service) = 105

WithoutDate(s) == [s EXCEPT !.analysis_date = 0]

SatisfiesArgs(r) ==
    /\ args.cost_threshold.tag = "num" => r.total_cost >= args.cost_threshold.v
    /\ args.cost_filter = "high" => r.total_cost >= 50
    /\ args.cost_filter = "medium" => (10 <= r.total_cost /\ r.total_cost < 50)
    /\ args.cost_filter = "low" => (0 < r.total_cost /\ r.total_cost < 10)
    /\ args.cost_filter = "free" => r.total_cost = 0
    /\ args.cost_filter = "billable" => r.total_cost > 0

FilterOnly ==
    /\ filtered.built /\ ~args.sort_by_cost
    /\ args.cost_threshold.tag = "num" \/ args.cost_filter # ""

\* C7: a threshold or tier filter returns exactly the entries that satisfy it, in
\* their original order, with total_resources their number and the total cost the
\* sum of their costs.
C7_FilterExact ==
    FilterOnly =>
       /\ filtered.resource_summaries = SelectSeq(summary.resource_summaries, SatisfiesArgs)
       /\ filtered.total_resources = Len(filtered.resource_summaries)
       /\ FracEq(filtered.total_monthly_cost, Whole(SumCosts(filtered.resource_summaries)))

\* C8: the summary a filter or sort returns has every aggregate field recomputed
\* from the retained resources, and the original summary is left as it was.
C8_AllFieldsRecomputed ==
    (filtered.built /\ args # NoArgs) =>
       LET kept == filtered.resource_summaries
       IN  /\ filtered.total_resources = Len(kept)
           /\ filtered.cost_by_category = _calculate_cost_by_category(kept)
           /\ filtered.cost_by_service = _calculate_cost_by_service(kept)
           /\ filtered.cost_by_priority = _calculate_cost_by_priority(kept)
           /\ filtered.cost_by_region = _calculate_cost_by_region(kept)
           /\ filtered.cost_distribution_analysis
                 = _analyze_cost_distribution(kept, cost_thresholds)
           /\ filtered.optimization_potential
                 = _analyze_optimization_potential(kept, SumCosts(kept), cost_thresholds)

\* C11: within one PricingService the pricing client is called at most once per
\* cache key, whatever the first call's outcome: no key is looked up twice.
C11_OneCallPerKey ==
    \A j, k \in 1..Len(lookups) : lookups[j] = lookups[k] => j = k

CalcResource == resources[1]

CalcData == outcome.result.data

PricedAsInstance ==
    /\ outcome.made /\ ~outcome.result.raised
    /\ CalcResource.additional_info.has_info
    /\ dispatch_category(CalcResource) \in {"ec2_instance", "instances"}

\* C12: an instance whose type is the generic 'instance' or absent, with no
\* instance_type in its metadata, is priced as t3.medium and is_estimated is true;
\* an instance with a specific type (type field or metadata) is priced with that
\* type and is_estimated is false.
C12_InstanceTypeDefault ==
    PricedAsInstance =>
       LET generic == CalcResource.type \in {"instance", ""}
           specific_type == CalcResource.additional_info.instance_type
       IN  IF generic /\ specific_type = ""
           THEN CalcData.actual_instance_type = "t3.medium" /\ CalcData.is_estimated
           ELSE /\ CalcData.actual_instance_type
                      = (IF generic THEN specific_type ELSE CalcResource.type)
                /\ ~CalcData.is_estimated

\* C13: a volume or bucket whose metadata omits the size is priced with the default
\* size (20 GB, 10 GB) and its result has is_estimated true.
C13_DefaultSizeIsEstimated ==
    (outcome.made /\ ~outcome.result.raised) =>
       /\ (/\ dispatch_category(CalcResource) \in {"ebs_volume", "volumes"}
           /\ CalcResource.additional_info.size_gb = Absent)
          => CalcData.size_gb = Num(20) /\ CalcData.is_estimated
       /\ (/\ dispatch_category(CalcResource) \in {"s3_bucket", "s3_buckets"}
           /\ CalcResource.additional_info.estimated_size_gb = Absent)
          => CalcData.size_gb = Num(10) /\ CalcData.is_estimated

\* C14: a resource whose resolved kind the classification table marks as free gets
\* total_cost 0, is_estimated false and the free-service pricing source.
C14_FreeKindsCostNothing ==
    (outcome.made /\ is_free(dispatch_category(CalcResource))) =>
       /\ ~outcome.result.raised
       /\ CalcData.total_cost = 0
       /\ ~CalcData.is_estimated
       /\ CalcData.pricing_source = "AWS Pricing (Free Service)"

\* C15: in a batch run over N resources the progress callback is called once after
\* each processed resource, the k-th call with (k, N); a finished run made exactly N
\* calls, the last one (N, N).
C15_ProgressCountsEveryResource ==
    (pc \in {"run", "done"}) =>
       /\ Len(progress) = idx - 1
       /\ \A k \in 1..Len(progress) : progress[k] = <<k, Len(resources)>>
       /\ (pc = "done") => Len(progress) = Len(resources)

C15_Witness ==
    /\ pc = "done" /\ Len(resources) = 2
    /\ progress = << <<1, 2>>, <<2, 2>> >>
    /\ \E id \in Ids(results) : IsFallbackResult(GetResult(results, id))
    /\ \E id \in Ids(results) : ~GetResult(results, id).calculation_failed

\* rank of the CostPriority of a resource's kind: high first, unknown last
PriorityRank(resource) ==
    LET priority == get_cost_priority(dispatch_category(resource))
    IN  CASE priority = "high" -> 4 [] priority = "medium" -> 3
          [] priority = "low" -> 2  [] priority = "free" -> 1
          [] OTHER -> 0

\* the resources the batch loop has taken so far, in the order it took them
ProcessedOrder == SubSeq(queue, 1, idx - 1)

\* C16: a batch processes its resources in non-increasing CostPriority order of
\* their kind, and resources of equal priority in their input order.
C16_PriorityOrder ==
    (pc \in {"run", "done"}) =>
       /\ \A j, k \in 1..Len(ProcessedOrder) :
             j < k => PriorityRank(ProcessedOrder[j]) >= PriorityRank(ProcessedOrder[k])
       /\ (pc = "done") =>
             \A rank \in 0..4 :
                SelectSeq(ProcessedOrder, LAMBDA r : PriorityRank(r) = rank)
                   = SelectSeq(resources, LAMBDA r : PriorityRank(r) = rank)

\* C20: the validation statistics count as precise exactly the results with neither
\* flag set, as estimated those with is_estimated and as failed those with
\* calculation_failed, so the precise count is never negative.
C20_ValidationCounts ==
    validation_stats.generated =>
       /\ validation_stats.precise_pricing
             = Cardinality({id \in Ids(results) :
                               /\ ~GetResult(results, id).is_estimated
                               /\ ~GetResult(results, id).calculation_failed})
       /\ validation_stats.estimated_pricing
             = Cardinality({id \in Ids(results) : GetResult(results, id).is_estimated})
       /\ validation_stats.failed_calculations
             = Cardinality({id \in Ids(results) : GetResult(results, id).calculation_failed})
       /\ validation_stats.precise_pricing >= 0

-----------------------------------------------------------------------------
(* SpecClassify: CostClassifier asked about kinds                          *)

MaxClassified == 2

\* kind strings: every key of the table, and strings the table lacks (no kind, an
\* ARN resource type, a calculator hint, a key in another case)
Kinds ==
    DOMAIN RESOURCE_COST_MAPPING
       \cup {"", "instance", "ec2_instance", "Instances", "unknown", "eks_clusters"}

InitClassify ==
    /\ resources = <<>>
    /\ region \in Regions
    /\ days \in Periods
    /\ executor = "pricing" /\ service_set = TRUE
    /\ pc = "classify"
    /\ ExecIdle /\ CalcIdle /\ AggIdle /\ ClassIdle /\ TrendIdle

\* CostClassifier.get_cost_category(kind) and CostClassifier.get_cost_priority(kind)
Classify ==
    /\ pc = "classify" /\ Len(classified) < MaxClassified
    /\ \E kind \in Kinds :
         classified' = Append(classified,
                              [kind |-> kind,
                               category |-> get_cost_category(kind),
                               priority |-> get_cost_priority(kind)])
    /\ UNCHANGED <<inputVars, trendVars, pc, execVars, calcVars, aggVars>>

NextClassify == Classify

SpecClassify == InitClassify /\ [][NextClassify]_vars

\* C17: for every kind string the classifier answers with a member of CostCategory
\* and a member of CostPriority; a kind the table lacks gets unknown and unknown;
\* the static table gives every CostCategory member exactly one CostPriority, and
\* the priority of a kind is the one of its category.
C17_ClassifierTotal ==
    /\ DOMAIN COST_PRIORITY_MAPPING = CostCategory
    /\ \A c \in CostCategory : COST_PRIORITY_MAPPING[c] \in CostPriority
    /\ \A k \in 1..Len(classified) :
          /\ classified[k].category \in CostCategory
          /\ classified[k].priority \in CostPriority
          /\ classified[k].priority = COST_PRIORITY_MAPPING[classified[k].category]
          /\ classified[k].kind \notin DOMAIN RESOURCE_COST_MAPPING
                => /\ classified[k].category = "unknown"
                   /\ classified[k].priority = "unknown"

C17_Witness ==
    /\ Len(classified) = 2
    /\ classified[1] = [kind |-> "eks_clusters", category |-> "unknown", priority |-> "unknown"]
    /\ classified[2] = [kind |-> "volumes", category |-> "billable_storage", priority |-> "medium"]

\* the ids present both in the result map and in the resource list
IdsInBoth == Ids(cost_results) \cap {resources[k].id : k \in 1..Len(resources)}

\* C18: aggregate_costs summarises exactly the ids present both in the result map
\* and in the resource list: total_resources is their number, and a result with no
\* resource or a resource with no result adds to no total, count or breakdown.
C18_JoinById ==
    summary.built =>
       /\ summary.total_resources = Cardinality(IdsInBoth)
       /\ Len(summary.resource_summaries) = Cardinality(IdsInBoth)
       /\ {summary.resource_summaries[k].resource_id :
              k \in 1..Len(summary.resource_summaries)} = IdsInBoth
       /\ summary.billable_resources + summary.free_resources <= Cardinality(IdsInBoth)
       /\ FracEq(summary.total_monthly_cost, Frac(RawTotal * 30, days))
       /\ \A map \in {summary.cost_by_category, summary.cost_by_service,
                      summary.cost_by_priority, summary.cost_by_region} :
             SumValues(map) = RawTotal

C18_Witness ==
    /\ summary.built
    /\ Ids(cost_results) = {"gone-1", "i-1", "bucket-1"}
    /\ summary.total_resources = 2
    /\ RawTotal = 30

\* C19: when sort_by_cost is requested the returned summary lists its resources in
\* non-increasing total_cost order, whether or not a filter removed any of them.
C19_SortedWhenRequested ==
    (pc = "filtered" /\ args.sort_by_cost) =>
       \A j, k \in 1..Len(filtered.resource_summaries) :
          j < k => filtered.resource_summaries[j].total_cost
                      >= filtered.resource_summaries[k].total_cost

\* C21: in CostCalculatorRegistry.calculate_cost_with_retry an attempt that fails
\* with a terminal error is the last one: no retry is pending after it, no sleep
\* follows it and the fallback result is returned at once.
C21_RegistryTerminalStopsRetry ==
    executor = "registry" =>
       /\ ~(attempt > 0 /\ HasTerminalIndicator(last_exception))
       /\ (/\ last_call.finished /\ ~last_call.escaped /\ ~last_call.succeeded
           /\ HasTerminalIndicator(last_call.error))
          => /\ IsFallbackResult(last_call.data)
             /\ last_call.sleeps = last_call.attempts - 1
             /\ last_call.only_retriable

\* C28: in both retry loops one sleep lies between two consecutive attempts and none
\* follows the final attempt; the sleep after failed attempt k lasts
\* base_delay * 2^k plus a jitter in [0, 1], and the sleeps of one resource never
\* get shorter.
C28_BackoffSchedule ==
    /\ [](/\ sleeps_made = attempts_made /\ attempts_made = attempt
          /\ attempt > 0 => /\ last_delay >= base_delay * (2 ^ (attempt - 1))
                            /\ last_delay <= base_delay * (2 ^ (attempt - 1)) + 1
          /\ (last_call.finished /\ ~last_call.escaped)
                => last_call.sleeps = last_call.attempts - 1)
    /\ [][(attempt > 0 /\ attempt' = attempt + 1) => last_delay' >= last_delay]_vars

C28_Witness ==
    /\ executor = "registry"
    /\ attempt = 3 /\ sleeps_made = 3 /\ last_delay = 4

\* the pricing client was called in the last calculation and gave no usable rate
LiveLookupFailed == outcome.result.called # <<>> /\ outcome.api.kind # "rate"

\* C22: whenever the live lookup for an instance type fails (the call raises, no
\* price entry, or no on-demand rate in the response) the instance is priced with
\* the rate of the static fallback table.
C22_FallbackOnAnyFailure ==
    (PricedAsInstance /\ LiveLookupFailed) =>
       CalcData.hourly_rate = Num(_get_fallback_ec2_price(CalcData.actual_instance_type))

\* C23: a result priced from the static fallback table because the live lookup
\* failed differs, in pricing_source or in is_estimated, from the result the same
\* resource gets from a successful live lookup.
C23_ProvenanceDistinguishable ==
    (/\ outcome.made /\ ~outcome.result.raised
     /\ outcome.result.called # <<>> /\ outcome.api.kind \in {"raises", "empty"}) =>
       \A live \in {a \in ApiOutcomes : a.kind = "rate"} :
          LET priced == calculate_resource_cost(CalcResource, region, days,
                                                EmptyCache, live).data
          IN  \/ priced.pricing_source # CalcData.pricing_source
              \/ priced.is_estimated # CalcData.is_estimated

\* the joined results whose resource record has no region
NoRegionEntries == SelectSeq(JoinedEntries, LAMBDA e : EntryResource(e).region = "")

\* C24: in aggregate_costs' region breakdown a resource whose record has no region
\* adds its cost to the 'Unknown' key of cost_by_region.
C24_NoRegionIsUnknown ==
    (summary.built /\ NoRegionEntries # <<>>) =>
       /\ "Unknown" \in DOMAIN summary.cost_by_region
       /\ summary.cost_by_region["Unknown"] = SumEntries(NoRegionEntries)

\* the costs of the summarised resources, ascending
SortedCosts ==
    SortAsc([k \in 1..Len(summary.resource_summaries) |->
                summary.resource_summaries[k].total_cost])

MedianCost == summary.cost_distribution_analysis.cost_concentration.median_cost

\* C25 (as stated): median_cost is the middle element of the ascending costs, for an
\* even number of resources the lower of the two middle elements.
C25_MedianLowerMiddle ==
    (summary.built /\ SortedCosts # <<>>) =>
       MedianCost = SortedCosts[(Len(SortedCosts) + 1) \div 2]

\* C25 (amended): median_cost is the middle element of the ascending costs, for an
\* even number of resources the upper of the two middle elements.
C25_MedianUpperMiddle ==
    (summary.built /\ SortedCosts # <<>>) =>
       MedianCost = SortedCosts[(Len(SortedCosts) \div 2) + 1]

C25_Witness ==
    /\ summary.built
    /\ SortedCosts = <<5, 100>>
    /\ MedianCost = 100

\* C27: needs_optimization holds exactly when the reported total_monthly_cost
\* exceeds 100, and optimization_priority is HIGH above 200, MEDIUM above 100 and
\* LOW otherwise, for every period_days.
C27_OptimizationFollowsMonthlyTotal ==
    summary.built =>
       LET t == summary.total_monthly_cost
           exceeds(x) == t.num > x * t.den
           o == summary.optimization_potential
       IN  /\ o.needs_optimization <=> exceeds(100)
           /\ o.optimization_priority
                 = (IF exceeds(200) THEN "HIGH" ELSE IF exceeds(100) THEN "MEDIUM" ELSE "LOW")

-----------------------------------------------------------------------------
(* Trend analysis and forecast: cost_aggregator.py, module level.  Costs   *)
(* are whole dollars; quotients are exact fractions, so float rounding is  *)
(* left out.  Dates are day numbers, ordered as their ISO strings are.     *)

\* sorted(historical_cost_data, key=lambda x: x['date']): a stable sort
sorted_by_date(data) ==
    LET before(j) == {i \in 1..Len(data) :
                         \/ data[i].date < data[j].date
                         \/ data[i].date = data[j].date /\ i < j}
    IN  [k \in 1..Len(data) |->
            data[CHOOSE j \in 1..Len(data) : Cardinality(before(j)) = k - 1]]

\* generate_cost_trend_analysis (seasonal_patterns needs 12 entries and stays {})
generate_cost_trend_analysis(data, current) ==
    IF Len(data) < 2
    THEN [ made |-> TRUE, historical_costs |-> <<>>, growth_rate |-> Whole(0),
           trend_direction |-> "STABLE", projected_next_month |-> current,
           cost_volatility |-> "UNKNOWN" ]
    ELSE LET sorted_costs == sorted_by_date(data)
             costs == [k \in 1..Len(data) |-> sorted_costs[k].cost]
             n == Len(costs)
             first_cost == IF costs[1] > 0 THEN costs[1] ELSE 1
             last_cost == costs[n]
             growth_rate == Frac((last_cost - first_cost) * 100, first_cost)
             total == SumSeq(costs)
             \* n^3 * variance, and the test coefficient_of_variation <= p/10
             spread == SumSeq([k \in 1..n |-> (n * costs[k] - total) * (n * costs[k] - total)])
             cv_at_most(p) == IF total > 0 THEN 100 * spread <= p * p * n * total * total
                              ELSE TRUE
             recent_trend == costs[n] - costs[n - 1]
         IN  [ made |-> TRUE, historical_costs |-> sorted_costs,
               growth_rate |-> growth_rate,
               trend_direction |->
                   IF /\ growth_rate.num <= 5 * growth_rate.den
                      /\ -growth_rate.num <= 5 * growth_rate.den THEN "STABLE"
                   ELSE IF growth_rate.num > 5 * growth_rate.den THEN "INCREASING"
                   ELSE "DECREASING",
               projected_next_month |->
                   IF costs[n] + recent_trend > 0 THEN costs[n] + recent_trend ELSE 0,
               cost_volatility |-> IF cv_at_most(1) THEN "LOW"
                                   ELSE IF cv_at_most(3) THEN "MEDIUM" ELSE "HIGH" ]

\* generate_cost_forecast: the period, the total, the predicted cost of each month
\* of monthly_breakdown and the confidence level (the confidence interval and the
\* cost drivers are not modelled)
generate_cost_forecast(data, days_ahead, current) ==
    IF Len(data) < 3
    THEN [ made |-> TRUE, forecast_period_days |-> days_ahead,
           forecasted_total_cost |-> Frac(current * days_ahead, 30),
           monthly_breakdown |-> [i \in 1..((days_ahead \div 30) + 1) |-> Whole(current)],
           forecast_confidence |-> "LOW" ]
    ELSE LET sorted_costs == sorted_by_date(data)
             costs == [k \in 1..Len(data) |-> sorted_costs[k].cost]
             n == Len(costs)
             sum_x == SumSeq([k \in 1..n |-> k - 1])
             sum_y == SumSeq(costs)
             sum_xy == SumSeq([k \in 1..n |-> (k - 1) * costs[k]])
             sum_xx == SumSeq([k \in 1..n |-> (k - 1) * (k - 1)])
             \* slope = numerator / denominator, both multiplied by n
             numerator == n * sum_xy - sum_x * sum_y
             denominator == n * sum_xx - sum_x * sum_x
             \* intercept + slope * future_x, multiplied by n * denominator
             projected(future_x) == sum_y * denominator - numerator * sum_x
                                       + numerator * future_x * n
             predicted_cost(i) ==
                 LET future_x == n + i
                 IN  Frac(IF projected(future_x) > 0 THEN projected(future_x) ELSE 0,
                          n * denominator)
             forecast_months == (days_ahead \div 30) + 1
             spread == SumSeq([k \in 1..n |-> (n * costs[k] - sum_y) * (n * costs[k] - sum_y)])
             cv_at_most(p) == IF sum_y > 0 THEN 100 * spread <= p * p * n * sum_y * sum_y
                              ELSE FALSE
         IN  [ made |-> TRUE, forecast_period_days |-> days_ahead,
               forecasted_total_cost |->
                   Frac(SumSeq([i \in 1..forecast_months |-> predicted_cost(i).num]),
                        n * denominator),
               monthly_breakdown |-> [i \in 1..forecast_months |-> predicted_cost(i)],
               forecast_confidence |-> IF cv_at_most(1) THEN "HIGH"
                                       ELSE IF cv_at_most(3) THEN "MEDIUM" ELSE "LOW" ]

-----------------------------------------------------------------------------
(* SpecTrend: one historical series, analysed and forecast                 *)

MaxHistory == 3

InitTrend ==
    /\ resources = <<>>
    /\ region \in Regions
    /\ days = 30
    /\ executor = "pricing" /\ service_set = TRUE
    /\ pc = "trend"
    /\ ExecIdle /\ CalcIdle /\ AggIdle /\ ClassIdle
    /\ historical_cost_data \in
          {h \in SeqsUpTo([date : 1..MaxHistory, cost : {0, 100, 110, 120}], MaxHistory) :
              \A j, k \in 1..Len(h) : h[j].date = h[k].date => j = k}
    /\ current_cost \in {0, 100}
    /\ forecast_days \in {45, 90}
    /\ trend_analysis = NotRun /\ cost_forecast = NotRun

\* generate_cost_trend_analysis(historical_cost_data, current_cost)
AnalyzeTrend ==
    /\ pc = "trend" /\ ~trend_analysis.made
    /\ trend_analysis' = generate_cost_trend_analysis(historical_cost_data, current_cost)
    /\ UNCHANGED <<inputVars, classVars, pc, execVars, calcVars, aggVars,
                   historical_cost_data, current_cost, forecast_days, cost_forecast>>

\* generate_cost_forecast(historical_cost_data, forecast_days, current_cost)
Forecast ==
    /\ pc = "trend" /\ ~cost_forecast.made
    /\ cost_forecast' = generate_cost_forecast(historical_cost_data, forecast_days,
                                               current_cost)
    /\ UNCHANGED <<inputVars, classVars, pc, execVars, calcVars, aggVars,
                   historical_cost_data, current_cost, forecast_days, trend_analysis>>

NextTrend == AnalyzeTrend \/ Forecast

SpecTrend == InitTrend /\ [][NextTrend]_vars

\* the costs of the historical entries in date order
HistoryCosts ==
    LET sorted_costs == sorted_by_date(historical_cost_data)
    IN  [k \in 1..Len(sorted_costs) |-> sorted_costs[k].cost]

\* the least-squares line over the indices 0..n-1 at index x, as an exact fraction
LeastSquaresAt(x) ==
    LET n == Len(HistoryCosts)
        xs == [k \in 1..n |-> k - 1]
        a == n * SumSeq([k \in 1..n |-> xs[k] * HistoryCosts[k]]) - SumSeq(xs) * SumSeq(HistoryCosts)
        d == n * SumSeq([k \in 1..n |-> xs[k] * xs[k]]) - SumSeq(xs) * SumSeq(xs)
    IN  Frac(SumSeq(HistoryCosts) * d - a * SumSeq(xs) + a * x * n, n * d)

\* C26: with at least 3 historical points the prediction for forecast month i is
\* the least-squares line at index n-1+i, floored at 0; the series 100, 110, 120
\* gives 130 for the first month.
C26_ForecastStepsFromLastPoint ==
    (cost_forecast.made /\ Len(HistoryCosts) >= 3) =>
       /\ \A i \in 1..Len(cost_forecast.monthly_breakdown) :
             LET line == LeastSquaresAt(Len(HistoryCosts) - 1 + i)
             IN  FracEq(cost_forecast.monthly_breakdown[i],
                        IF line.num > 0 THEN line ELSE Frac(0, line.den))
       /\ HistoryCosts = <<100, 110, 120>>
             => FracEq(cost_forecast.monthly_breakdown[1], Whole(130))

\* C29: a series of two or more equal costs, all zero included, has growth_rate 0
\* and trend_direction STABLE.
C29_FlatSeriesIsStable ==
    (/\ trend_analysis.made /\ Len(HistoryCosts) >= 2
     /\ \A k \in 1..Len(HistoryCosts) : HistoryCosts[k] = HistoryCosts[1]) =>
       /\ trend_analysis.growth_rate.num = 0
       /\ trend_analysis.trend_direction = "STABLE"

\* C30: forecasted_total_cost is the sum of predicted_cost over monthly_breakdown,
\* on the least-squares path and on the flat path of fewer than 3 points.
C30_TotalIsSumOfMonths ==
    cost_forecast.made =>
       LET months == cost_forecast.monthly_breakdown
           den == months[1].den
       IN  /\ \A i \in 1..Len(months) : months[i].den = den
           /\ FracEq(cost_forecast.forecasted_total_cost,
                     Frac(SumSeq([i \in 1..Len(months) |-> months[i].num]), den))

====
